---- MODULE Spec2Model ----
(***************************************************************************)
(* A model of issue-sync (coreos/issue-sync): the reconciliation of a      *)
(* JIRA project with the issues and comments of a GitHub repository.       *)
(*                                                                         *)
(* Modelled from lib/issues.go (CompareIssues, DidIssueChange,             *)
(* UpdateIssue, CreateIssue), lib/comments.go (CompareComments,            *)
(* UpdateComment, the two comment regular expressions) and                 *)
(* lib/clients/{github,jira}.go (the real clients).                        *)
(*                                                                         *)
(* Text that the program only compares or copies (titles, states,          *)
(* logins of issues, labels) is a TLA+ string.  Text that the program      *)
(* formats, slices or matches with a regular expression (comment bodies)   *)
(* is a record [txt, pad]: the characters txt followed by pad copies of    *)
(* PadChar, so that bodies longer than maxBodyLength can be represented.   *)
(***************************************************************************)
EXTENDS Integers, Sequences, FiniteSets, TLC

VARIABLES
    github,     \* the GitHub repository: issue ID -> issue (with its comments)
    pages,      \* the result pages of the GitHub issue listing
    jira,       \* the JIRA project: the sequence of its issues
    now,        \* the clock
    pc,         \* "idle", "loop" (inside CompareIssues), "done", "panic"
    ghIssues,   \* CompareIssues: the GitHub issues enumerated by the pass
    jiraIssues, \* CompareIssues: the JIRA issues listed by the pass
    idx,        \* CompareIssues: position in ghIssues (0: not in the loop)
    result,     \* what the last CompareIssues returned: "none", "ok", "err"
    trace,      \* the JIRAClient write calls of the current pass, in order
    dryRun,     \* the dry-run flag of the configuration
    savedSince, \* the `since` value saved in the configuration file
    hist,       \* bookkeeping about earlier passes (not program state)
    rt,         \* comment-template probe: one comment rendered and decoded
    lq,         \* list-query probe: one call of JIRAClient.ListIssues
    rq,         \* requester probe: one call of request
    cf,         \* start-up probe: NewConfig and NewJIRAClient
    dc,         \* issue-field probe: one source issue against one mirror
    cc          \* comment probe: one call of CompareComments

mainVars == <<github, pages, jira, now, pc, ghIssues, jiraIssues, idx, result,
              trace, dryRun, savedSince, hist>>

probeVars == <<rt, lq, rq, cf, dc, cc>>

vars == <<github, pages, jira, now, pc, ghIssues, jiraIssues, idx, result,
          trace, dryRun, savedSince, hist, rt, lq, rq, cf, dc, cc>>

-----------------------------------------------------------------------------
(* Bounds of the model *)

\* length (in characters) of the long comment bodies tried
LongBody == 40000

\* number of reconciliation passes in one behaviour
MaxPasses == 2

\* number of remote calls that fail in one behaviour
MaxFaults == 1

\* number of changes made on GitHub in one behaviour
MaxEdits == 1

\* largest number of IDs handed to JIRAClient.ListIssues by the list probe
MaxIDs == 102

-----------------------------------------------------------------------------
(* Characters and text *)

PadChar == "x"

DigitChars == <<"0","1","2","3","4","5","6","7","8","9">>

Digit == {DigitChars[i] : i \in 1..10}

\* \w of Go's regexp: [0-9A-Za-z_]
WordChar ==
    Digit \cup {"_"} \cup
    {"a","b","c","d","e","f","g","h","i","j","k","l","m",
     "n","o","p","q","r","s","t","u","v","w","x","y","z"} \cup
    {"A","B","C","D","E","F","G","H","I","J","K","L","M",
     "N","O","P","Q","R","S","T","U","V","W","X","Y","Z"}

RECURSIVE TrailPad(_)
\* number of PadChar characters at the end of the character sequence t
TrailPad(t) ==
    IF t = <<>> \/ t[Len(t)] # PadChar THEN 0
    ELSE 1 + TrailPad(SubSeq(t, 1, Len(t) - 1))

\* the text made of the characters t followed by p pad characters, in the
\* unique representation in which txt does not end with PadChar
Str(t, p) ==
    LET k == TrailPad(t)
    IN  [txt |-> SubSeq(t, 1, Len(t) - k), pad |-> p + k]

Text(t) == Str(t, 0)

EmptyStr == Text(<<>>)

\* len(s)
SLen(s) == Len(s.txt) + s.pad

\* s[i], 1-based
At(s, i) == IF i <= Len(s.txt) THEN s.txt[i] ELSE PadChar

\* a + b
Concat(a, b) ==
    IF a.pad = 0 THEN Str(a.txt \o b.txt, b.pad)
    ELSE Str(a.txt \o [i \in 1..a.pad |-> PadChar] \o b.txt, b.pad)

\* s[:n] for n <= len(s)
Take(s, n) ==
    IF n <= Len(s.txt) THEN Text(SubSeq(s.txt, 1, n))
    ELSE Str(s.txt, n - Len(s.txt))

\* s[i:] with i 1-based
Drop(s, i) ==
    IF i <= Len(s.txt) THEN Str(SubSeq(s.txt, i, Len(s.txt)), s.pad)
    ELSE Str(<<>>, SLen(s) - i + 1)

\* the characters s[i..j] of the explicit part of s
Mid(s, i, j) == Text(SubSeq(s.txt, i, j))

\* the literal lit occurs in s at position i
HasLit(s, i, lit) ==
    /\ i >= 1
    /\ i + Len(lit) - 1 <= SLen(s)
    /\ \A k \in 1..Len(lit) : At(s, i + k - 1) = lit[k]

Min(S) == CHOOSE m \in S : \A o \in S : m <= o
Max(S) == CHOOSE m \in S : \A o \in S : m >= o

\* last index of the longest run of characters of class C that starts at
\* position i of the explicit part of s (i - 1 when the run is empty)
RunEnd(s, i, C) ==
    LET bad == {k \in i..Len(s.txt) : s.txt[k] \notin C}
    IN  IF bad = {} THEN Len(s.txt) ELSE Min(bad) - 1

\* index of the first line break of s at or after position i, 0 if none
FirstNL(s, i) ==
    LET nls == {k \in i..Len(s.txt) : s.txt[k] = "\n"}
    IN  IF nls = {} THEN 0 ELSE Min(nls)

RECURSIVE Itoa(_)
\* fmt.Sprintf("%d", n) for n >= 0
Itoa(n) ==
    IF n < 10 THEN <<DigitChars[n + 1]>>
    ELSE Itoa(n \div 10) \o <<DigitChars[(n % 10) + 1]>>

DigitVal(c) == CHOOSE v \in 0..9 : DigitChars[v + 1] = c

RECURSIVE Atoi(_)
\* strconv.Atoi on a sequence of digits
Atoi(d) ==
    IF d = <<>> THEN 0
    ELSE 10 * Atoi(SubSeq(d, 1, Len(d) - 1)) + DigitVal(d[Len(d)])

-----------------------------------------------------------------------------
(* The comment template: lib/clients/jira.go *)

\* maxBodyLength is the maximum length of a JIRA comment body
maxBodyLength == 32768

MonthName ==
    << <<"J","a","n","u","a","r","y">>,
       <<"F","e","b","r","u","a","r","y">>,
       <<"M","a","r","c","h">>,
       <<"A","p","r","i","l">>,
       <<"M","a","y">>,
       <<"J","u","n","e">>,
       <<"J","u","l","y">>,
       <<"A","u","g","u","s","t">>,
       <<"S","e","p","t","e","m","b","e","r">>,
       <<"O","c","t","o","b","e","r">>,
       <<"N","o","v","e","m","b","e","r">>,
       <<"D","e","c","e","m","b","e","r">> >>

\* two-digit, zero-padded
Pad2(n) == IF n < 10 THEN <<"0">> \o Itoa(n) ELSE Itoa(n)

\* t.Format(commentDateFormat) with commentDateFormat =
\* "15:04 PM, January 2 2006": 24-hour clock, minute, AM/PM mark, month
\* name, day and year
commentDateFormat(t) ==
    Pad2(t.hour) \o <<":">> \o Pad2(t.minute) \o <<" ">>
    \o (IF t.hour >= 12 THEN <<"P","M">> ELSE <<"A","M">>)
    \o <<",", " ">> \o MonthName[t.month] \o <<" ">> \o Itoa(t.day)
    \o <<" ">> \o Itoa(t.year)

LitComment == <<"C","o","m","m","e","n","t"," ","(","I","D"," ">>
LitFrom == <<")"," ","f","r","o","m"," ","G","i","t","H","u","b"," ","u","s","e","r"," ">>
LitOpen == <<" ","(">>
LitAt == <<" ","a","t"," ">>
LitSep == <<":","\n","\n">>

\* the body generated for a GitHub comment by CreateComment and
\* UpdateComment, before any truncation.  user is the result of GetUser.
RenderComment(comment, user) ==
    LET head == LitComment \o Itoa(comment.id) \o LitFrom \o user.login
        named == IF user.name # <<>>
                 THEN head \o LitOpen \o user.name \o <<")">>
                 ELSE head
    IN  Concat(Text(named \o LitAt \o commentDateFormat(comment.createdAt) \o LitSep),
               comment.body)

\* s[:n] as Go evaluates it: a run-time panic (slice bounds out of range)
\* when n > len(s)
SliceTo(s, n) ==
    IF n > SLen(s) THEN [panic |-> TRUE, body |-> EmptyStr]
    ELSE [panic |-> FALSE, body |-> Take(s, n)]

\* the body realJIRAClient.CreateComment submits
CreateCommentBody(comment, user) ==
    LET body == RenderComment(comment, user)
    IN  IF SLen(body) >= maxBodyLength THEN SliceTo(body, maxBodyLength)
        ELSE [panic |-> FALSE, body |-> body]

\* the body realJIRAClient.UpdateComment submits
UpdateCommentBody(comment, user) ==
    LET body == RenderComment(comment, user)
    IN  IF SLen(body) < maxBodyLength THEN SliceTo(body, maxBodyLength)
        ELSE [panic |-> FALSE, body |-> body]

-----------------------------------------------------------------------------
(* The regular expressions of lib/comments.go *)

\* jCommentIDRegex.FindStringSubmatch(s):
\*   ^Comment \(ID (\d+)\)
\* <<>> when s does not match, else <<whole match, ID digits>>
jCommentIDRegex(s) ==
    LET dS == Len(LitComment) + 1
        dE == RunEnd(s, dS, Digit)
    IN  IF /\ HasLit(s, 1, LitComment)
           /\ dE >= dS
           /\ HasLit(s, dE + 1, <<")">>)
        THEN <<Mid(s, 1, dE + 1), Mid(s, dS, dE)>>
        ELSE <<>>

\* jCommentRegex.FindStringSubmatch(s):
\*   ^Comment \(ID (\d+)\) from GitHub user (\w+) \((.+)\)? at (.+):\n\n(.+)$
\* <<>> when s does not match, else the whole match and the five groups.
\* '.' does not match a line break and '$' is the end of the text; \d+ and
\* \w+ are followed by a character outside their class, so they take the
\* whole run; (.+) is greedy, so the third group takes the longest text
\* after which the rest still matches, the optional ')' included.
jCommentRegex(s) ==
    LET n == SLen(s)
        dS == Len(LitComment) + 1
        dE == RunEnd(s, dS, Digit)
        wS == dE + 1 + Len(LitFrom)
        wE == RunEnd(s, wS, WordChar)
        gS == wE + 1 + Len(LitOpen)
        nl == FirstNL(s, gS)
        tailOK == /\ nl > 1
                  /\ At(s, nl - 1) = ":"
                  /\ nl + 2 <= n
                  /\ At(s, nl + 1) = "\n"
                  /\ FirstNL(s, nl + 2) = 0
        \* where group 4 starts if group 3 ends at e, 0 if the rest fails
        DateStart(e) ==
            IF HasLit(s, e + 1, <<")">> \o LitAt) THEN e + 2 + Len(LitAt)
            ELSE IF HasLit(s, e + 1, LitAt) THEN e + 1 + Len(LitAt)
            ELSE 0
        cands == {e \in gS..(nl - 1) :
                     DateStart(e) > 0 /\ DateStart(e) <= nl - 2}
        gE == Max(cands)
    IN  IF /\ HasLit(s, 1, LitComment)
           /\ dE >= dS
           /\ HasLit(s, dE + 1, LitFrom)
           /\ wE >= wS
           /\ HasLit(s, wE + 1, LitOpen)
           /\ tailOK
           /\ cands # {}
        THEN <<s, Mid(s, dS, dE), Mid(s, wS, wE), Mid(s, gS, gE),
               Mid(s, DateStart(gE), nl - 2), Drop(s, nl + 2)>>
        ELSE <<>>

-----------------------------------------------------------------------------
(* The JIRA project (the tracker) and its REST operations *)

\* values of the custom fields of a JIRA issue (jira.IssueFields.Unknowns):
\* a number, a string or nothing
IntF(n) == [t |-> "int", n |-> n, s |-> ""]
StrF(s) == [t |-> "str", n |-> 0, s |-> s]
NoF == [t |-> "none", n |-> 0, s |-> ""]

\* Unknowns.Int(key): the number, or 0 and an error
UnknownsInt(f) ==
    IF f.t = "int" THEN [v |-> f.n, err |-> FALSE] ELSE [v |-> 0, err |-> TRUE]

\* Unknowns.String(key): the string, or "" and an error
UnknownsString(f) ==
    IF f.t = "str" THEN [v |-> f.s, err |-> FALSE] ELSE [v |-> "", err |-> TRUE]

\* POST issue: the tracker assigns the next key
JiraCreate(j, fields) ==
    Append(j, [key |-> Len(j) + 1,
               type |-> fields.type,
               summary |-> fields.summary,
               description |-> fields.description,
               unknowns |-> fields.unknowns,
               comments |-> <<>>])

\* PUT issue: the fields sent replace the stored ones, the others stay
JiraUpdate(j, key, fields) ==
    LET old == j[key]
        unk == [f \in DOMAIN old.unknowns |->
                   IF f \in DOMAIN fields.unknowns THEN fields.unknowns[f]
                   ELSE old.unknowns[f]]
    IN  [j EXCEPT ![key] = [key |-> old.key,
                            type |-> fields.type,
                            summary |-> fields.summary,
                            description |-> fields.description,
                            unknowns |-> unk,
                            comments |-> old.comments]]

\* GET issue
JiraGet(j, key) == j[key]

\* POST comment: the tracker assigns the comment id
JiraAddComment(j, key, body) ==
    [j EXCEPT ![key].comments =
        Append(@, [id |-> 10 * key + Len(@) + 1, body |-> body])]

\* PUT comment: the body of the comment with this id is replaced
JiraPutComment(j, key, id, body) ==
    [j EXCEPT ![key].comments =
        [i \in 1..Len(@) |-> IF @[i].id = id THEN [id |-> id, body |-> body]
                             ELSE @[i]]]

\* the search 'project=P AND cf[GitHub ID] in (ids)'
JQLByID(j, ids) ==
    SelectSeq(j, LAMBDA m : /\ m.unknowns.githubID.t = "int"
                            /\ \E i \in 1..Len(ids) : ids[i] = m.unknowns.githubID.n)

\* the search 'project=P'
JQLProject(j) == j

-----------------------------------------------------------------------------
(* JIRAClient.ListIssues: lib/clients/jira.go *)

\* maxJQLIssueLength is the maximum number of GitHub issues we can use
\* before we need to stop using JQL and filter issues ourself
maxJQLIssueLength == 100

\* the query chosen for a list of ids
ListIssuesQuery(ids) ==
    IF Len(ids) < maxJQLIssueLength THEN "idlist" ELSE "project"

\* realJIRAClient.ListIssues filtering without the test err == nil
realJIRAClient_ListIssuesAnyField(j, ids) ==
    LET found == IF ListIssuesQuery(ids) = "idlist" THEN JQLByID(j, ids)
                 ELSE JQLProject(j)
    IN  IF Len(ids) < maxJQLIssueLength THEN found
        ELSE SelectSeq(found, LAMBDA v :
                 \E i \in 1..Len(ids) :
                     UnknownsInt(v.unknowns.githubID).v = ids[i])

\* realJIRAClient.ListIssues, given the tracker's contents
realJIRAClient_ListIssues(j, ids) ==
    LET found == IF ListIssuesQuery(ids) = "idlist" THEN JQLByID(j, ids)
                 ELSE JQLProject(j)
    IN  IF Len(ids) < maxJQLIssueLength THEN found
        ELSE SelectSeq(found, LAMBDA v :
                 /\ ~UnknownsInt(v.unknowns.githubID).err
                 /\ \E i \in 1..Len(ids) :
                        UnknownsInt(v.unknowns.githubID).v = ids[i])

\* dryrunJIRAClient.ListIssues using what the search returned as it is
dryrunJIRAClient_ListIssuesAsFound(j, ids) ==
    IF ListIssuesQuery(ids) = "idlist" THEN JQLByID(j, ids) ELSE JQLProject(j)

\* dryrunJIRAClient.ListIssues: the same code as realJIRAClient.ListIssues
dryrunJIRAClient_ListIssues(j, ids) ==
    LET found == IF ListIssuesQuery(ids) = "idlist" THEN JQLByID(j, ids)
                 ELSE JQLProject(j)
    IN  IF Len(ids) < maxJQLIssueLength THEN found
        ELSE SelectSeq(found, LAMBDA v :
                 /\ ~UnknownsInt(v.unknowns.githubID).err
                 /\ \E i \in 1..Len(ids) :
                        UnknownsInt(v.unknowns.githubID).v = ids[i])

-----------------------------------------------------------------------------
(* GitHubClient: lib/clients/github.go *)

\* Config.GetSinceParam: validateConfig parses `since` into a copy of the
\* configuration (value receiver), so the field read here is the zero time
GetSinceParam == 0

\* Issues.ListByRepo: page 0 is answered as page 1; LastPage is 0 on the
\* last page; only issues updated since the given time are listed
ListByRepo(gh, pgs, since, page) ==
    LET p == IF page = 0 THEN 1 ELSE page
    IN  IF p > Len(pgs) THEN [items |-> <<>>, lastPage |-> 0]
        ELSE [items |-> SelectSeq([i \in 1..Len(pgs[p]) |-> gh[pgs[p][i]]],
                                  LAMBDA v : v.updatedAt >= since),
              lastPage |-> IF p = Len(pgs) THEN 0 ELSE Len(pgs)]

RECURSIVE ListIssuesFrom(_, _, _, _, _)
\* the loop of realGHClient.ListIssues: for page := page; page < npages
ListIssuesFrom(gh, pgs, page, npages, issues) ==
    IF ~(page < npages) THEN issues
    ELSE LET r == ListByRepo(gh, pgs, GetSinceParam, page)
             issuePage == SelectSeq(r.items, LAMBDA v : ~v.pr)
         IN  ListIssuesFrom(gh, pgs, page + 1, r.lastPage, issues \o issuePage)

\* realGHClient.ListIssues
realGHClient_ListIssues(gh, pgs) == ListIssuesFrom(gh, pgs, 0, 1, <<>>)

\* realGHClient.ListComments asking for the newest comment first
realGHClient_ListCommentsDesc(gh, issue) ==
    [k \in 1..Len(gh[issue.id].comments) |->
        gh[issue.id].comments[Len(gh[issue.id].comments) + 1 - k]]

\* realGHClient.ListComments
realGHClient_ListComments(gh, issue) == gh[issue.id].comments

Bob == <<"b","o","b">>
Amy == <<"a","m","y">>

\* realGHClient.GetUser: the GitHub profile of a login; amy has no name
GetUser(login) ==
    [login |-> login,
     name |-> IF login = Bob THEN <<"B","o","b"," ","B">> ELSE <<>>]

-----------------------------------------------------------------------------
(* Reconciliation of comments: lib/comments.go and lib/clients/jira.go *)

\* A remote call that fails does so on every retry.  at names the call that
\* fails while one issue is processed ("none", "IssueWrite", "GetIssue",
\* "ListComments", "GetUser", "CommentWrite"), n the source comment it is
\* made for, kind whether the failed JIRA request still produced an HTTP
\* response ("http") or none at all ("noresp").
NoFault == [at |-> "none", n |-> 0, kind |-> "http"]

\* getErrorBody(config, res) after a failed request: it reads res.Body, so
\* a nil res (no HTTP response) is a nil-pointer panic
getErrorBody(kind) == IF kind = "noresp" THEN "panic" ELSE "err"

\* one entry of the trace: the JIRAClient operation op called for the
\* GitHub issue gh (and GitHub comment cid) on the JIRA issue key (and JIRA
\* comment jcid); sent: a request went out; applied: the tracker performed
\* it; res: "ok", "err" (an error was returned) or "panic"
Call(op, gh, cid, key, jcid, sent, applied, res) ==
    [op |-> op, gh |-> gh, cid |-> cid, key |-> key, jcid |-> jcid,
     sent |-> sent, applied |-> applied, res |-> res]

\* the state threaded through the processing of one issue
Logged(st, call) ==
    [st EXCEPT !.trace = Append(@, call), !.status = call.res]

\* realJIRAClient.CreateComment for the k-th source comment of issue g
realJIRAClient_CreateComment(st, g, issue, comment, k, fp) ==
    LET call(sent, applied, res) ==
            Call("CreateComment", g, comment.id, issue.key, 0, sent, applied, res)
        Send(b) ==
            IF b.panic
            THEN Logged(st, call(FALSE, FALSE, "panic"))
            ELSE IF fp.at = "CommentWrite" /\ fp.n = k
            THEN [Logged(st, call(TRUE, FALSE, getErrorBody(fp.kind)))
                     EXCEPT !.fired = TRUE]
            ELSE [Logged(st, call(TRUE, TRUE, "ok"))
                     EXCEPT !.jira = JiraAddComment(@, issue.key, b.body)]
    IN  IF fp.at = "GetUser" /\ fp.n = k
        THEN [Logged(st, call(FALSE, FALSE, "err")) EXCEPT !.fired = TRUE]
        ELSE Send(CreateCommentBody(comment, GetUser(comment.login)))

\* realJIRAClient.UpdateComment for the k-th source comment of issue g: the
\* request function returns a nil value, so after a successful PUT the
\* type assertion com.(*jira.Comment) fails and an error is returned
realJIRAClient_UpdateComment(st, g, issue, id, comment, k, fp) ==
    LET call(sent, applied, res) ==
            Call("UpdateComment", g, comment.id, issue.key, id, sent, applied, res)
        Send(b) ==
            IF b.panic
            THEN Logged(st, call(FALSE, FALSE, "panic"))
            ELSE IF fp.at = "CommentWrite" /\ fp.n = k
            THEN [Logged(st, call(TRUE, FALSE, getErrorBody(fp.kind)))
                     EXCEPT !.fired = TRUE]
            ELSE [Logged(st, call(TRUE, TRUE, "err"))
                     EXCEPT !.jira = JiraPutComment(@, issue.key, id, b.body)]
    IN  IF fp.at = "GetUser" /\ fp.n = k
        THEN [Logged(st, call(FALSE, FALSE, "err")) EXCEPT !.fired = TRUE]
        ELSE Send(UpdateCommentBody(comment, GetUser(comment.login)))

\* dryrunJIRAClient.CreateComment: the user is fetched, the comment that
\* would be created is printed, no request is made
dryrunJIRAClient_CreateComment(st, g, issue, comment, k, fp) ==
    LET call(res) ==
            Call("CreateComment", g, comment.id, issue.key, 0, FALSE, FALSE, res)
    IN  IF fp.at = "GetUser" /\ fp.n = k
        THEN [Logged(st, call("err")) EXCEPT !.fired = TRUE]
        ELSE Logged(st, call("ok"))

\* dryrunJIRAClient.UpdateComment: the user is fetched, the comment that
\* would be written is printed, no request is made
dryrunJIRAClient_UpdateComment(st, g, issue, id, comment, k, fp) ==
    LET call(res) ==
            Call("UpdateComment", g, comment.id, issue.key, id, FALSE, FALSE, res)
    IN  IF fp.at = "GetUser" /\ fp.n = k
        THEN [Logged(st, call("err")) EXCEPT !.fired = TRUE]
        ELSE Logged(st, call("ok"))

\* jClient.CreateComment: NewJIRAClient gave the dry-run client or the
\* real one
JIRAClient_CreateComment(st, g, issue, comment, k, fp) ==
    IF st.dry THEN dryrunJIRAClient_CreateComment(st, g, issue, comment, k, fp)
    ELSE realJIRAClient_CreateComment(st, g, issue, comment, k, fp)

\* jClient.UpdateComment
JIRAClient_UpdateComment(st, g, issue, id, comment, k, fp) ==
    IF st.dry THEN dryrunJIRAClient_UpdateComment(st, g, issue, id, comment, k, fp)
    ELSE realJIRAClient_UpdateComment(st, g, issue, id, comment, k, fp)

\* UpdateComment of lib/comments.go: fields[5] of a nil match is an index
\* out of range panic
UpdateComment(st, g, comment, jComment, jIssue, k, fp) ==
    LET Compare(fields) ==
            IF fields = <<>> THEN [st EXCEPT !.status = "panic"]
            ELSE IF fields[6] = comment.body THEN st
            ELSE JIRAClient_UpdateComment(st, g, jIssue, jComment.id,
                                          comment, k, fp)
    IN  Compare(jCommentRegex(jComment.body))

\* FindComment taking the last comment generated for the GitHub comment id
FindCommentLast(jComments, id) ==
    LET IsFor(m) == m # <<>> /\ Atoi(m[2].txt) = id
        First(hits) == IF hits = {} THEN 0 ELSE Max(hits)
    IN  First({i \in 1..Len(jComments) :
                  IsFor(jCommentIDRegex(jComments[i].body))})

\* FindComment without the test of jCommentIDRegex.MatchString: a comment
\* that does not match is taken for the comment looked for
FindCommentNoFilter(jComments, id) ==
    LET IsFor(m) == m = <<>> \/ Atoi(m[2].txt) = id
        First(hits) == IF hits = {} THEN 0 ELSE Min(hits)
    IN  First({i \in 1..Len(jComments) :
                  IsFor(jCommentIDRegex(jComments[i].body))})

\* index of the first comment of jComments generated for the GitHub comment
\* id, 0 if there is none
FindComment(jComments, id) ==
    LET IsFor(m) == m # <<>> /\ Atoi(m[2].txt) = id
        First(hits) == IF hits = {} THEN 0 ELSE Min(hits)
    IN  First({i \in 1..Len(jComments) :
                  IsFor(jCommentIDRegex(jComments[i].body))})

RECURSIVE CommentLoopReturnsUpdateError(_, _, _, _, _, _, _)
\* the loop of CompareComments returning the error of UpdateComment as it
\* returns the error of CreateComment
CommentLoopReturnsUpdateError(st, k, ghComments, jComments, g, jIssue, fp) ==
    LET One(i) ==
            IF i # 0
            THEN UpdateComment(st, g, ghComments[k], jComments[i], jIssue, k, fp)
            ELSE JIRAClient_CreateComment(st, g, jIssue, ghComments[k], k, fp)
        Rest(r) ==
            IF r.status \in {"panic", "err"} THEN r
            ELSE CommentLoopReturnsUpdateError(
                     [r EXCEPT !.status = "ok"], k + 1, ghComments,
                     jComments, g, jIssue, fp)
    IN  IF k > Len(ghComments) THEN st
        ELSE Rest(One(FindComment(jComments, ghComments[k].id)))

RECURSIVE CommentLoop(_, _, _, _, _, _, _)
\* the loop of CompareComments from the k-th source comment on: the error of
\* UpdateComment is dropped, the error of CreateComment is returned
CommentLoop(st, k, ghComments, jComments, g, jIssue, fp) ==
    LET One(i) ==
            IF i # 0
            THEN UpdateComment(st, g, ghComments[k], jComments[i], jIssue, k, fp)
            ELSE JIRAClient_CreateComment(st, g, jIssue, ghComments[k], k, fp)
        Rest(i, r) ==
            IF r.status = "panic" \/ (i = 0 /\ r.status = "err") THEN r
            ELSE CommentLoop([r EXCEPT !.status = "ok"], k + 1, ghComments,
                             jComments, g, jIssue, fp)
        Body(i) == Rest(i, One(i))
    IN  IF k > Len(ghComments) THEN st
        ELSE Body(FindComment(jComments, ghComments[k].id))

\* CompareComments
CompareComments(st, ghIssue, jIssue, gh, fp) ==
    IF Len(ghIssue.comments) = 0 THEN st
    ELSE IF fp.at = "ListComments"
    THEN [st EXCEPT !.status = "err", !.fired = TRUE]
    ELSE CommentLoop(st, 1, realGHClient_ListComments(gh, ghIssue),
                     jIssue.comments, ghIssue.id, jIssue, fp)

-----------------------------------------------------------------------------
(* Reconciliation of issues: lib/issues.go *)

\* strings.Join of the label names in alphabetical order, each name once:
\* of the names used, bug is the first
JoinSorted(l, sep) ==
    LET names == {l[i] : i \in 1..Len(l)}
    IN  IF names = {} THEN ""
        ELSE IF Cardinality(names) = 1 THEN l[1]
        ELSE IF l[1] = "bug" THEN l[1] \o sep \o l[2]
        ELSE l[2] \o sep \o l[1]

RECURSIVE Join(_, _)
\* strings.Join
Join(l, sep) ==
    IF l = <<>> THEN ""
    ELSE IF Len(l) = 1 THEN l[1]
    ELSE l[1] \o sep \o Join(Tail(l), sep)

\* time.Format(dateFormat) of the instant t; instants are numbered
dateFormat(t) == ToString(t)

\* DidIssueChange testing the status and the reporter as it tests the labels
DidIssueChangeStatusAnd(ghIssue, jIssue) ==
    LET status == UnknownsString(jIssue.unknowns.githubStatus)
        reporter == UnknownsString(jIssue.unknowns.githubReporter)
        labels == UnknownsString(jIssue.unknowns.githubLabels)
    IN  \/ ghIssue.title # jIssue.summary
        \/ ghIssue.body # jIssue.description
        \/ (status.err /\ ghIssue.state # status.v)
        \/ (reporter.err /\ ghIssue.login # reporter.v)
        \/ (labels.err /\ Join(ghIssue.labels, ",") # labels.v)

\* DidIssueChange
DidIssueChange(ghIssue, jIssue) ==
    LET status == UnknownsString(jIssue.unknowns.githubStatus)
        reporter == UnknownsString(jIssue.unknowns.githubReporter)
        labels == UnknownsString(jIssue.unknowns.githubLabels)
    IN  \/ ghIssue.title # jIssue.summary
        \/ ghIssue.body # jIssue.description
        \/ (status.err \/ ghIssue.state # status.v)
        \/ (reporter.err \/ ghIssue.login # reporter.v)
        \/ (labels.err /\ Join(ghIssue.labels, ",") # labels.v)

\* UpdateIssueFields sending the GitHub Number field too, with the ID in it
UpdateIssueFieldsNumber(ghIssue, jIssue, t) ==
    [type |-> jIssue.type,
     summary |-> ghIssue.title,
     description |-> ghIssue.body,
     unknowns |-> [githubNumber |-> IntF(ghIssue.id),
                   githubStatus |-> StrF(ghIssue.state),
                   githubReporter |-> StrF(ghIssue.login),
                   githubLabels |-> StrF(Join(ghIssue.labels, ",")),
                   lastUpdate |-> StrF(dateFormat(t))]]

\* the fields UpdateIssue sends
UpdateIssueFields(ghIssue, jIssue, t) ==
    [type |-> jIssue.type,
     summary |-> ghIssue.title,
     description |-> ghIssue.body,
     unknowns |-> [githubStatus |-> StrF(ghIssue.state),
                   githubReporter |-> StrF(ghIssue.login),
                   githubLabels |-> StrF(Join(ghIssue.labels, ",")),
                   lastUpdate |-> StrF(dateFormat(t))]]

\* CreateIssueFields with the GitHub Reporter field left unset
CreateIssueFieldsNoReporter(issue, t) ==
    [type |-> "Task",
     summary |-> issue.title,
     description |-> issue.body,
     unknowns |-> [githubID |-> IntF(issue.id),
                   githubNumber |-> IntF(issue.number),
                   githubStatus |-> StrF(issue.state),
                   githubReporter |-> NoF,
                   githubLabels |-> StrF(Join(issue.labels, ",")),
                   lastUpdate |-> StrF(dateFormat(t))]]

\* the fields CreateIssue sends
CreateIssueFields(issue, t) ==
    [type |-> "Task",
     summary |-> issue.title,
     description |-> issue.body,
     unknowns |-> [githubID |-> IntF(issue.id),
                   githubNumber |-> IntF(issue.number),
                   githubStatus |-> StrF(issue.state),
                   githubReporter |-> StrF(issue.login),
                   githubLabels |-> StrF(Join(issue.labels, ",")),
                   lastUpdate |-> StrF(dateFormat(t))]]

\* the end of UpdateIssue and of CreateIssue: when the write returned no
\* error, the JIRA issue is read again with realJIRAClient.GetIssue and its
\* comments are reconciled
GetAndCompare(written, ghIssue, key, gh, fp) ==
    IF written.status # "ok" THEN written
    ELSE IF fp.at = "GetIssue"
    THEN [written EXCEPT !.status = getErrorBody(fp.kind), !.fired = TRUE]
    ELSE IF key \notin 1..Len(written.jira)
    THEN [written EXCEPT !.status = getErrorBody("http")]
    ELSE CompareComments(written, ghIssue, JiraGet(written.jira, key), gh, fp)

\* realJIRAClient.UpdateIssue
realJIRAClient_UpdateIssue(st, g, key, fields, fp) ==
    LET call(applied, res) == Call("UpdateIssue", g, 0, key, 0, TRUE, applied, res)
    IN  IF fp.at = "IssueWrite"
        THEN [Logged(st, call(FALSE, getErrorBody(fp.kind))) EXCEPT !.fired = TRUE]
        ELSE [Logged(st, call(TRUE, "ok"))
                 EXCEPT !.jira = JiraUpdate(@, key, fields)]

\* dryrunJIRAClient.UpdateIssue sending the update
dryrunJIRAClient_UpdateIssueSends(st, g, key, fields, fp) ==
    [Logged(st, Call("UpdateIssue", g, 0, key, 0, TRUE, TRUE, "ok"))
        EXCEPT !.jira = JiraUpdate(@, key, fields)]

\* dryrunJIRAClient.UpdateIssue: the update is printed, the issue given is
\* returned as it is
dryrunJIRAClient_UpdateIssue(st, g, key, fields, fp) ==
    Logged(st, Call("UpdateIssue", g, 0, key, 0, FALSE, FALSE, "ok"))

\* jClient.UpdateIssue
JIRAClient_UpdateIssue(st, g, key, fields, fp) ==
    IF st.dry THEN dryrunJIRAClient_UpdateIssue(st, g, key, fields, fp)
    ELSE realJIRAClient_UpdateIssue(st, g, key, fields, fp)

\* realJIRAClient.CreateIssue: the issue returned is the created one, with
\* its key
realJIRAClient_CreateIssue(st, g, fields, fp) ==
    LET key == Len(st.jira) + 1
    IN  IF fp.at = "IssueWrite"
        THEN [Logged(st, Call("CreateIssue", g, 0, 0, 0, TRUE, FALSE,
                              getErrorBody(fp.kind)))
                 EXCEPT !.fired = TRUE]
        ELSE [Logged(st, Call("CreateIssue", g, 0, key, 0, TRUE, TRUE, "ok"))
                 EXCEPT !.jira = JiraCreate(@, fields), !.key = key]

\* dryrunJIRAClient.CreateIssue: the creation is printed, the issue given
\* is returned as it is, so its key is empty
dryrunJIRAClient_CreateIssue(st, g, fields, fp) ==
    [Logged(st, Call("CreateIssue", g, 0, 0, 0, FALSE, FALSE, "ok"))
        EXCEPT !.key = 0]

\* jClient.CreateIssue
JIRAClient_CreateIssue(st, g, fields, fp) ==
    IF st.dry THEN dryrunJIRAClient_CreateIssue(st, g, fields, fp)
    ELSE realJIRAClient_CreateIssue(st, g, fields, fp)

\* UpdateIssue, with jClient.UpdateIssue and jClient.GetIssue
UpdateIssue(st, ghIssue, jIssue, gh, t, fp) ==
    LET written ==
            IF ~DidIssueChange(ghIssue, jIssue) THEN st
            ELSE JIRAClient_UpdateIssue(st, ghIssue.id, jIssue.key,
                                        UpdateIssueFields(ghIssue, jIssue, t), fp)
    IN  GetAndCompare(written, ghIssue, jIssue.key, gh, fp)

\* CreateIssue, with jClient.CreateIssue and jClient.GetIssue of the key
\* of the issue that jClient.CreateIssue returned
CreateIssue(st, issue, gh, t, fp) ==
    LET Get(written) == GetAndCompare(written, issue, written.key, gh, fp)
    IN  Get(JIRAClient_CreateIssue(st, issue.id, CreateIssueFields(issue, t), fp))

\* the JIRA issue CompareIssues matches with ghIssue: the first one whose
\* GitHub ID field reads as the issue's ID (an unreadable field reads as 0);
\* 0 if there is none
FindIssue(jIssues, ghIssue) ==
    LET hits == {i \in 1..Len(jIssues) :
                    UnknownsInt(jIssues[i].unknowns.githubID).v = ghIssue.id}
    IN  IF hits = {} THEN 0 ELSE Min(hits)

-----------------------------------------------------------------------------
(* The repository and the project at the start *)

Hello == <<"h","e","l","l","o">>
HelloEdited == <<"h","e","l","l","o"," ","e","d","i","t","e","d">>
TwoLines == <<"h","i","\n","y","o","u">>

PostedAt == [hour |-> 16, minute |-> 27, month |-> 4, day |-> 17, year |-> 2019]

GhComment(id, login, body) ==
    [id |-> id, login |-> login, createdAt |-> PostedAt, body |-> body]

\* the comment lists issue 1 may start with
CommentLists ==
    {<<>>,
     <<GhComment(42, Bob, Text(Hello))>>,
     <<GhComment(42, Amy, Text(Hello))>>,
     <<GhComment(42, Bob, Text(TwoLines))>>,
     <<GhComment(42, Bob, Str(Hello, LongBody))>>,
     <<GhComment(42, Bob, Text(Hello)), GhComment(43, Bob, Text(HelloEdited))>>}

LabelLists == {<<>>, <<"bug", "p1">>}

\* what issue 1 may start with: labels and comments are reconciled
\* independently of each other, so one of the two varies at a time
Sources ==
    {[labels |-> <<>>, comments |-> c] : c \in CommentLists}
    \cup {[labels |-> l, comments |-> <<>>] : l \in LabelLists}

OtherLabels(l) == IF l = <<>> THEN <<"bug", "p1">> ELSE <<>>

OtherState(s) == IF s = "open" THEN "closed" ELSE "open"

\* entries 1 and 2 are issues, entry 3 is a pull request
Repo(labels, comments) ==
    <<[id |-> 1, number |-> 11, title |-> "Crash on start", body |-> "It crashes",
       state |-> "open", login |-> "alice", labels |-> labels,
       comments |-> comments, pr |-> FALSE, updatedAt |-> 0],
      [id |-> 2, number |-> 12, title |-> "Typo", body |-> "In the docs",
       state |-> "closed", login |-> "carol", labels |-> <<>>,
       comments |-> <<>>, pr |-> FALSE, updatedAt |-> 0],
      [id |-> 3, number |-> 13, title |-> "Fix typo", body |-> "See #12",
       state |-> "open", login |-> "carol", labels |-> <<>>,
       comments |-> <<>>, pr |-> TRUE, updatedAt |-> 0]>>

IssueIDs == {1, 2}

\* the listing on one page, or on two
Layouts == {<< <<1, 3, 2>> >>, << <<1, 3>>, <<2>> >>}

\* a JIRA issue left by an earlier run for GitHub issue 1: other title and
\* labels, no status, one comment written by hand and one generated
Legacy ==
    [key |-> 1, type |-> "Bug", summary |-> "Crash", description |-> "It crashes",
     unknowns |-> [githubID |-> IntF(1), githubNumber |-> IntF(11),
                   githubStatus |-> NoF, githubReporter |-> StrF("alice"),
                   githubLabels |-> StrF("old"), lastUpdate |-> NoF],
     comments |-> <<[id |-> 11, body |-> Text(<<"L","G","T","M">>)],
                    [id |-> 12,
                     body |-> RenderComment(GhComment(42, Bob, Text(HelloEdited)),
                                            GetUser(Bob))]>>]

Projects == {<<>>, <<Legacy>>}

rqOff == [phase |-> "off"]
cfOff == [phase |-> "off"]
dcOff == [phase |-> "off"]
ccOff == [phase |-> "off"]
rtOff == [phase |-> "off"]
lqOff == [phase |-> "off"]

\* the calls a live pass over the same issues would have made so far, and
\* the JIRA project it would have left
liveOff == [jira |-> <<>>, trace |-> <<>>, status |-> "off"]

LiveAfter(r) ==
    [jira |-> r.jira, trace |-> r.trace,
     status |-> IF r.status = "panic" THEN "panic" ELSE "ok"]

histInit ==
    [passNo |-> 0,          \* passes started
     faults |-> 0,          \* remote calls that failed
     edits |-> 0,           \* changes made on GitHub
     clean |-> FALSE,       \* no remote call of the current pass was made to
                            \* fail by GitHub or JIRA being out of order
     listErr |-> FALSE,     \* a listing of the current pass returned an error
     prevClean |-> FALSE,   \* the pass before the current one ran to its end
                            \* without a failed call, and GitHub has not
                            \* changed since
     createdNow |-> {},     \* issues whose JIRA issue the current pass
                            \* created and that have not changed since
     createdPrev |-> {},    \* the same for the pass before
     touched |-> {},        \* issues changed on GitHub while the current
                            \* pass was in its loop
     late |-> {},           \* the same for the pass before
     jira0 |-> <<>>,        \* dry run: the JIRA project when the pass began
     live |-> liveOff]      \* dry run: what a live pass would have done

\* the state before the first run of the tool, whatever its dry-run flag
Start ==
    /\ \E src \in Sources : github = Repo(src.labels, src.comments)
    /\ pages \in Layouts
    /\ jira \in Projects
    /\ now = 1
    /\ pc = "idle"
    /\ ghIssues = <<>>
    /\ jiraIssues = <<>>
    /\ idx = 0
    /\ result = "none"
    /\ trace = <<>>
    /\ savedSince = dateFormat(0)
    /\ hist = histInit
    /\ rt = rtOff
    /\ lq = lqOff
    /\ rq = rqOff
    /\ cf = cfOff
    /\ dc = dcOff
    /\ cc = ccOff

Init == Start /\ dryRun = FALSE

-----------------------------------------------------------------------------
(* The actions *)

Resting == pc \in {"idle", "done", "panic"}

\* RunE saving the date whatever compareIssues returned
setLastUpdateTimeAlways(res, dry, old, t) ==
    IF res \in {"ok", "err"} THEN dateFormat(t) ELSE old

\* RunE saving the date after a dry run too
setLastUpdateTimeDryRun(res, dry, old, t) ==
    IF res = "ok" THEN dateFormat(t) ELSE old

\* RunE from the return of compareIssues: an error is returned at once;
\* otherwise, unless this is a dry run, setLastUpdateTime stores the present
\* date as `since` and writes the configuration file.  res is "none" while
\* compareIssues has not returned.
setLastUpdateTime(res, dry, old, t) ==
    IF res = "ok" /\ ~dry THEN dateFormat(t) ELSE old

\* CompareIssues up to its loop: list the GitHub issues, then the JIRA
\* issues with their IDs.  fault: the listing that fails, if any.
StartPass ==
    /\ Resting
    /\ hist.passNo < MaxPasses
    /\ \E fault \in {"none", "GitHub", "JIRA", "JIRAnoresp"} :
          LET list == realGHClient_ListIssues(github, pages)
              ids == [i \in 1..Len(list) |-> list[i].id]
              ghErr == fault = "GitHub"
              jErr == ~ghErr /\ list # <<>> /\ fault \in {"JIRA", "JIRAnoresp"}
          IN  /\ fault # "none" => hist.faults < MaxFaults /\ (ghErr \/ jErr)
              /\ ghIssues' = IF ghErr THEN <<>> ELSE list
              /\ jiraIssues' = IF ghErr \/ jErr \/ list = <<>> THEN <<>>
                               ELSE IF dryRun
                               THEN dryrunJIRAClient_ListIssues(jira, ids)
                               ELSE realJIRAClient_ListIssues(jira, ids)
              /\ idx' = IF ghErr \/ jErr \/ list = <<>> THEN 0 ELSE 1
              /\ pc' = IF jErr /\ getErrorBody(IF fault = "JIRA" THEN "http"
                                               ELSE "noresp") = "panic"
                       THEN "panic"
                       ELSE IF ghErr \/ jErr \/ list = <<>> THEN "done"
                       ELSE "loop"
              /\ result' = IF ghErr \/ (jErr /\ fault = "JIRA") THEN "err"
                           ELSE IF list = <<>> /\ ~jErr THEN "ok"
                           ELSE "none"
              /\ savedSince' = setLastUpdateTime(result', dryRun, savedSince,
                                                 now + 1)
              /\ hist' = [hist EXCEPT
                            !.passNo = @ + 1,
                            !.faults = IF fault # "none" THEN @ + 1 ELSE @,
                            !.clean = fault = "none",
                            !.listErr = ghErr \/ (jErr /\ fault = "JIRA"),
                            !.prevClean = pc = "done" /\ hist.clean /\ result = "ok",
                            !.createdPrev = hist.createdNow,
                            !.createdNow = {},
                            !.late = hist.touched,
                            !.touched = {},
                            !.jira0 = IF dryRun THEN jira ELSE <<>>,
                            !.live = IF dryRun
                                     THEN [jira |-> jira, trace |-> <<>>,
                                           status |-> "ok"]
                                     ELSE liveOff]
    /\ trace' = <<>>
    /\ now' = now + 1
    /\ UNCHANGED <<github, pages, jira, dryRun, probeVars>>

FaultPlans ==
    {NoFault}
    \cup {[at |-> a, n |-> 0, kind |-> k] :
             a \in {"IssueWrite", "GetIssue"}, k \in {"http", "noresp"}}
    \cup {[at |-> "ListComments", n |-> 0, kind |-> "http"]}
    \cup {[at |-> "GetUser", n |-> n, kind |-> "http"] : n \in 1..2}
    \cup {[at |-> "CommentWrite", n |-> n, kind |-> k] :
             n \in 1..2, k \in {"http", "noresp"}}

\* the body of the loop of CompareIssues for ghIssues[idx]: the issue is
\* matched with a JIRA issue of the list and updated, or else created
LoopBodyOn(st, fp) ==
    LET Sync(i) ==
            IF i # 0
            THEN UpdateIssue(st, ghIssues[idx], jiraIssues[i], github, now, fp)
            ELSE CreateIssue(st, ghIssues[idx], github, now, fp)
    IN  Sync(FindIssue(jiraIssues, ghIssues[idx]))

\* the loop body run by the client of this run on the JIRA project
LoopBody(fp) ==
    LoopBodyOn([jira |-> jira, trace |-> trace, status |-> "ok",
                fired |-> FALSE, dry |-> dryRun, key |-> 0], fp)

\* CompareIssues returns the error of the last issue
LoopReturnLastError(status) == IF status = "err" THEN "err" ELSE "ok"

\* what CompareIssues returns after its loop: the errors of UpdateIssue and
\* CreateIssue were logged inside the loop, nil is returned
LoopReturn(status) == "ok"

\* one iteration of the loop of CompareIssues, for ghIssues[idx]; the last
\* iteration is followed by the return of CompareIssues.  fp: the remote
\* call that fails, if any.
IssueStep ==
    /\ pc = "loop"
    /\ \E fp \in IF hist.faults < MaxFaults THEN FaultPlans ELSE {NoFault} :
          \E r \in {LoopBody(fp)} :
              /\ fp # NoFault => r.fired
              /\ jira' = r.jira
              /\ trace' = r.trace
              /\ idx' = IF r.status = "panic" THEN idx ELSE idx + 1
              /\ pc' = IF r.status = "panic" THEN "panic"
                       ELSE IF idx = Len(ghIssues) THEN "done"
                       ELSE "loop"
              /\ result' = IF r.status # "panic" /\ idx = Len(ghIssues)
                           THEN LoopReturn(r.status) ELSE result
              /\ savedSince' = setLastUpdateTime(result', dryRun, savedSince,
                                                 now)
              /\ hist' = [hist EXCEPT
                            !.faults = IF r.fired THEN @ + 1 ELSE @,
                            !.clean = @ /\ ~r.fired,
                            !.createdNow = IF Len(r.jira) > Len(jira)
                                           THEN @ \cup {ghIssues[idx].id}
                                           ELSE @,
                            !.live = IF dryRun /\ fp = NoFault /\ @.status = "ok"
                                     THEN LiveAfter(LoopBodyOn(
                                              [jira |-> @.jira, trace |-> @.trace,
                                               status |-> "ok", fired |-> FALSE,
                                               dry |-> FALSE, key |-> 0], NoFault))
                                     ELSE @]
    /\ UNCHANGED <<github, pages, now, ghIssues, jiraIssues, dryRun, probeVars>>

\* what a change of issue g on GitHub does to the bookkeeping
Edited(g) ==
    [hist EXCEPT !.edits = @ + 1,
                 !.createdNow = @ \ {g},
                 !.createdPrev = @ \ {g}]

\* GitHub changes between two passes
CanEdit ==
    /\ Resting
    /\ hist.passNo >= 1
    /\ hist.passNo < MaxPasses
    /\ hist.edits < MaxEdits

\* GitHub: issue g is closed or reopened
EditState(g) ==
    /\ CanEdit
    /\ github' = [github EXCEPT ![g].state = OtherState(@), ![g].updatedAt = now]
    /\ hist' = Edited(g)
    /\ pc' = "idle"
    /\ UNCHANGED <<pages, jira, now, ghIssues, jiraIssues, idx, result, trace,
                   dryRun, savedSince, probeVars>>

\* GitHub: the labels of issue g are changed
EditLabels(g) ==
    /\ CanEdit
    /\ github' = [github EXCEPT ![g].labels = OtherLabels(@), ![g].updatedAt = now]
    /\ hist' = Edited(g)
    /\ pc' = "idle"
    /\ UNCHANGED <<pages, jira, now, ghIssues, jiraIssues, idx, result, trace,
                   dryRun, savedSince, probeVars>>

\* GitHub: the first comment of issue g is edited
EditComment(g) ==
    /\ CanEdit
    /\ github[g].comments # <<>>
    /\ github[g].comments[1].body = Text(Hello)
    /\ github' = [github EXCEPT ![g].comments[1].body = Text(HelloEdited),
                                ![g].updatedAt = now]
    /\ hist' = Edited(g)
    /\ pc' = "idle"
    /\ UNCHANGED <<pages, jira, now, ghIssues, jiraIssues, idx, result, trace,
                   dryRun, savedSince, probeVars>>

Next ==
    \/ StartPass
    \/ IssueStep
    \/ \E g \in IssueIDs : EditState(g)
    \/ \E g \in IssueIDs : EditLabels(g)
    \/ \E g \in IssueIDs : EditComment(g)

Spec == Init /\ [][Next]_vars

-----------------------------------------------------------------------------
(* Passes during which GitHub changes: an issue is closed or reopened after *)
(* the pass has listed the issues and before it has saved `since`.          *)

\* two issues without labels and comments, listed on one page or on two
InitSince ==
    /\ Start
    /\ dryRun = FALSE
    /\ github = Repo(<<>>, <<>>)

\* GitHub: issue g is closed or reopened while CompareIssues is in its loop;
\* the change takes its time
EditDuringPass(g) ==
    /\ pc = "loop"
    /\ hist.edits < MaxEdits
    /\ github' = [github EXCEPT ![g].state = OtherState(@), ![g].updatedAt = now]
    /\ now' = now + 1
    /\ hist' = [Edited(g) EXCEPT !.touched = @ \cup {g}]
    /\ UNCHANGED <<pages, jira, pc, ghIssues, jiraIssues, idx, result, trace,
                   dryRun, savedSince, probeVars>>

NextSince ==
    \/ StartPass
    \/ IssueStep
    \/ \E g \in IssueIDs : EditDuringPass(g)

SpecSince == InitSince /\ [][NextSince]_vars

\* every run of the tool is a dry run
InitDry == Start /\ dryRun = TRUE

SpecDry == InitDry /\ [][Next]_vars

\* the main variables while a probe runs
MainOff ==
    /\ github = <<>>
    /\ pages = <<>>
    /\ jira = <<>>
    /\ now = 0
    /\ pc = "off"
    /\ ghIssues = <<>>
    /\ jiraIssues = <<>>
    /\ idx = 0
    /\ result = "none"
    /\ trace = <<>>
    /\ dryRun = FALSE
    /\ savedSince = ""
    /\ hist = histInit

-----------------------------------------------------------------------------
(* The comment template on its own: one comment is rendered by one of the   *)
(* two client operations and the result of CreateComment is decoded again.  *)

CommentIDs == {7, 42}

Logins == {<<"b","o","b">>,
           <<"b","i","l","b","o","-","b","a","g","g","i","n","s">>}

\* display names; <<>> is a GitHub user without a name
Names == {<<>>, <<"B","o","b"," ","B">>}

Times == {[hour |-> 16, minute |-> 27, month |-> 4, day |-> 17, year |-> 2019],
          [hour |-> 9, minute |-> 5, month |-> 1, day |-> 2, year |-> 2006]}

BodyTexts == {<<"h","e","l","l","o">>,
              <<"h","e","l","l","o"," ","e","d","i","t","e","d">>,
              <<"h","i","\n","y","o","u">>}

\* the lengths of the rendered comment that are tried; 0 leaves the body
\* text as it is
RenderedLengths ==
    {0, maxBodyLength - 1, maxBodyLength, maxBodyLength + 1, LongBody}

\* the body text b extended with pad characters so that the rendered comment
\* has length total
BodyOfLength(id, user, time, b, total) ==
    LET c0 == [id |-> id, login |-> user.login, createdAt |-> time,
               body |-> Text(b)]
        l0 == SLen(RenderComment(c0, user))
    IN  IF total <= l0 THEN Text(b) ELSE Str(b, total - l0)

InitTemplate ==
    /\ MainOff
    /\ lq = lqOff
    /\ rq = rqOff
    /\ cf = cfOff
    /\ dc = dcOff
    /\ cc = ccOff
    /\ \E id \in CommentIDs, login \in Logins, name \in Names, time \in Times,
          b \in BodyTexts, total \in RenderedLengths :
          LET user == [login |-> login, name |-> name]
          IN  rt = [phase |-> "input",
                    comment |-> [id |-> id, login |-> login, createdAt |-> time,
                                 body |-> BodyOfLength(id, user, time, b, total)],
                    user |-> user,
                    sent |-> [panic |-> FALSE, body |-> EmptyStr],
                    fields |-> <<>>]

\* realJIRAClient.CreateComment up to the request
TemplateCreate ==
    /\ rt.phase = "input"
    /\ rt' = [rt EXCEPT !.phase = "created",
                        !.sent = CreateCommentBody(rt.comment, rt.user)]
    /\ UNCHANGED <<mainVars, lq, rq, cf, dc, cc>>

\* realJIRAClient.UpdateComment up to the request
TemplateUpdate ==
    /\ rt.phase = "input"
    /\ rt' = [rt EXCEPT !.phase = "updated",
                        !.sent = UpdateCommentBody(rt.comment, rt.user)]
    /\ UNCHANGED <<mainVars, lq, rq, cf, dc, cc>>

\* UpdateComment of lib/comments.go decoding a created comment
TemplateDecode ==
    /\ rt.phase = "created"
    /\ ~rt.sent.panic
    /\ rt' = [rt EXCEPT !.phase = "decoded",
                        !.fields = jCommentRegex(rt.sent.body)]
    /\ UNCHANGED <<mainVars, lq, rq, cf, dc, cc>>

\* the generated comment of TestJiraCommentRegex: the ID and the login are
\* links, the login has a hyphen, the user has a display name
TestComment ==
    Text(
    <<"C","o","m","m","e","n","t"," ","[","(","I","D"," ","4","8","4",
      "1","6","3","4","0","3",")","|","h","t","t","p","s",":","/","/",
      "g","i","t","h","u","b",".","c","o","m","]"," ","f","r","o","m",
      " ","G","i","t","H","u","b"," ","u","s","e","r"," ","[","b","i",
      "l","b","o","-","b","a","g","g","i","n","s","|","h","t","t","p",
      "s",":","/","/","g","i","t","h","u","b",".","c","o","m","/","b",
      "i","l","b","o","-","b","a","g","g","i","n","s","]"," ","(","B",
      "i","l","b","o"," ","B","a","g","g","i","n","s",")"," ","a","t",
      " ","1","6",":","2","7"," ","P","M",","," ","A","p","r","i","l",
      " ","1","7"," ","2","0","1","9",":","\n","\n","B","l","a"," ",
      "b","l","i","b","i","d","y"," ","b","l","o","o"," ","b","l",
      "a">>)

\* what TestJiraCommentRegex expects of the submatches 1 to 5
TestFields ==
    <<Text(<<"4","8","4","1","6","3","4","0","3">>),
      Text(<<"b","i","l","b","o","-","b","a","g","g","i","n","s">>),
      Text(<<"B","i","l","b","o"," ","B","a","g","g","i","n","s">>),
      Text(<<"1","6",":","2","7"," ","P","M",","," ","A","p","r",
             "i","l"," ","1","7"," ","2","0","1","9">>
           ),
      Text(<<"B","l","a"," ","b","l","i","b","i","d","y"," ","b",
             "l","o","o"," ","b","l","a">>
           )>>

\* TestJiraCommentRegex: the test's comment is decoded
TemplateTest ==
    /\ rt.phase = "input"
    /\ rt' = [rt EXCEPT !.phase = "tested",
                        !.fields = jCommentRegex(TestComment)]
    /\ UNCHANGED <<mainVars, lq, rq, cf, dc, cc>>

NextTemplate == TemplateCreate \/ TemplateUpdate \/ TemplateDecode \/ TemplateTest

SpecTemplate == InitTemplate /\ [][NextTemplate]_vars

-----------------------------------------------------------------------------
(* JIRAClient.ListIssues on its own: one call with n IDs against a project *)

\* a JIRA issue whose GitHub ID field holds f
Mirror(key, f) ==
    [key |-> key, type |-> "Task", summary |-> "s", description |-> "d",
     unknowns |-> [githubID |-> f, githubNumber |-> NoF,
                   githubStatus |-> StrF("open"), githubReporter |-> StrF("alice"),
                   githubLabels |-> StrF(""), lastUpdate |-> NoF],
     comments |-> <<>>]

ListProjects ==
    {<<>>,
     <<Mirror(1, IntF(1)), Mirror(2, NoF), Mirror(3, IntF(100)),
       Mirror(4, IntF(500))>>,
     <<Mirror(1, StrF("1")), Mirror(2, NoF), Mirror(3, IntF(0)),
       Mirror(4, IntF(2))>>}

InitList ==
    /\ MainOff
    /\ rt = rtOff
    /\ rq = rqOff
    /\ cf = cfOff
    /\ dc = dcOff
    /\ cc = ccOff
    /\ \E n \in 1..MaxIDs, first \in {0, 1}, p \in ListProjects,
          c \in {"real", "dryrun"} :
          lq = [phase |-> "input", client |-> c,
                ids |-> [i \in 1..n |-> first + i - 1],
                project |-> p, query |-> "", issues |-> <<>>]

\* realJIRAClient.ListIssues
RealListIssues ==
    /\ lq.phase = "input"
    /\ lq.client = "real"
    /\ lq' = [lq EXCEPT !.phase = "listed",
                        !.query = ListIssuesQuery(lq.ids),
                        !.issues = realJIRAClient_ListIssues(lq.project, lq.ids)]
    /\ UNCHANGED <<mainVars, rt, rq, cf, dc, cc>>

\* dryrunJIRAClient.ListIssues
DryrunListIssues ==
    /\ lq.phase = "input"
    /\ lq.client = "dryrun"
    /\ lq' = [lq EXCEPT !.phase = "listed",
                        !.query = ListIssuesQuery(lq.ids),
                        !.issues = dryrunJIRAClient_ListIssues(lq.project, lq.ids)]
    /\ UNCHANGED <<mainVars, rt, rq, cf, dc, cc>>

NextList == RealListIssues \/ DryrunListIssues

SpecList == InitList /\ [][NextList]_vars

-----------------------------------------------------------------------------
(* The requesters on their own: one call of request with an operation that *)
(* fails or succeeds at each attempt, under a configured timeout.  Time is  *)
(* counted in ticks.                                                       *)

\* the largest configured timeout
MaxTimeout == 2

\* the longest pause between two attempts
MaxSleep == 2

\* the attempts of one request that are followed
MaxCalls == 5

\* Config.GetTimeout: the duration given with --timeout, as it is
Timeouts == -1..MaxTimeout

\* backoff.Stop
Stop == -1

\* ExponentialBackOff.NextBackOff with MaxElapsedTime set by request: Stop
\* once the elapsed time is over a MaxElapsedTime other than zero, the next
\* interval otherwise
NextBackOff(MaxElapsedTime, elapsed, interval) ==
    IF MaxElapsedTime # 0 /\ elapsed > MaxElapsedTime THEN Stop ELSE interval

\* what f returned at attempt n: the response n unless there was none, the
\* value n on success or as a partial result
Attempt(n, ok, partial, resp) ==
    [ret |-> IF ok \/ partial THEN n ELSE 0,
     res |-> IF ok \/ resp THEN n ELSE 0,
     err |-> IF ok THEN "nil" ELSE "err"]

\* realGHClient.request after RetryNotify returned er
realGHClient_request(last, er) ==
    IF er # "nil" THEN [ret |-> 0, res |-> 0, err |-> er] ELSE last

\* realJIRAClient.request losing the error of RetryNotify
realJIRAClient_requestNilError(last, er) ==
    IF er # "nil" THEN [ret |-> last.ret, res |-> last.res, err |-> "nil"]
    ELSE last

\* realJIRAClient.request after RetryNotify returned er
realJIRAClient_request(last, er) ==
    IF er # "nil" THEN [ret |-> last.ret, res |-> last.res, err |-> er]
    ELSE last

\* the return of the requester of one client
request(client, last, er) ==
    IF client = "GitHub" THEN realGHClient_request(last, er)
    ELSE realJIRAClient_request(last, er)

NoAttempt == [ret |-> 0, res |-> 0, err |-> "nil"]

InitRequest ==
    /\ MainOff
    /\ rt = rtOff
    /\ lq = lqOff
    /\ cf = cfOff
    /\ dc = dcOff
    /\ cc = ccOff
    /\ \E c \in {"GitHub", "JIRA"}, t \in Timeouts :
          rq = [phase |-> "run", client |-> c, timeout |-> t, elapsed |-> 0,
                calls |-> 0, failed |-> 0, okAt |-> 0, checked |-> 0,
                last |-> NoAttempt, out |-> NoAttempt]

\* backoff.RetryNotify, one turn of its loop: the operation runs; on success
\* the requester returns; on failure NextBackOff either stops the loop, and
\* the requester returns, or gives the pause before the next turn
RetryTurn(client) ==
    /\ rq.phase = "run"
    /\ rq.client = client
    /\ rq.calls < MaxCalls
    /\ \E ok, partial, resp \in BOOLEAN, took \in 0..1, interval \in 1..MaxSleep :
          LET n == rq.calls + 1
              last == Attempt(n, ok, partial, resp)
              elapsed == rq.elapsed + took
              next == NextBackOff(rq.timeout, elapsed, interval)
          IN  rq' = IF ok
                    THEN [rq EXCEPT !.phase = "done", !.calls = n,
                                    !.okAt = n, !.elapsed = elapsed,
                                    !.last = last,
                                    !.out = request(client, last, "nil")]
                    ELSE IF next = Stop
                    THEN [rq EXCEPT !.phase = "done", !.calls = n,
                                    !.failed = @ + 1, !.elapsed = elapsed,
                                    !.checked = elapsed, !.last = last,
                                    !.out = request(client, last, last.err)]
                    ELSE [rq EXCEPT !.calls = n, !.failed = @ + 1,
                                    !.elapsed = elapsed + next,
                                    !.checked = elapsed, !.last = last]
    /\ UNCHANGED <<mainVars, rt, lq, cf, dc, cc>>

\* realGHClient.request
GitHubRequest == RetryTurn("GitHub")

\* realJIRAClient.request
JIRARequest == RetryTurn("JIRA")

NextRequest == GitHubRequest \/ JIRARequest

SpecRequest == InitRequest /\ [][NextRequest]_vars

-----------------------------------------------------------------------------
(* The start of a run on its own: NewConfig on the options given, then     *)
(* NewJIRAClient against a JIRA server.                                    *)

\* the latest `since` date configured
MaxSince == 2

\* time.Time{}, the value of a time field never assigned
ZeroTime == 0

\* the values of the `since` option: none, a date in dateFormat, other text
SinceStrings == {""} \cup {dateFormat(t) : t \in 0..MaxSince} \cup {"yesterday"}

\* time.Parse(dateFormat, s)
timeParse(s) ==
    IF \E t \in 0..MaxSince : dateFormat(t) = s
    THEN [err |-> "nil", t |-> CHOOSE t \in 0..MaxSince : dateFormat(t) = s]
    ELSE [err |-> "err", t |-> ZeroTime]

\* the six custom fields of issue-sync
FieldNames ==
    {"GitHub ID", "GitHub Number", "GitHub Labels", "GitHub Status",
     "GitHub Reporter", "Last Issue-Sync Update"}

\* Config{}
EmptyConfig == [since |-> ZeroTime, project |-> "", fieldIDs |-> {}]

\* Config.validateConfig, on the copy c of the configuration it is called
\* on (value receiver): complete says that the other required options are
\* given and well-formed; the empty `since` is parsed as it is after its
\* default was set.  The result holds the copy as validateConfig left it.
validateConfig(c, complete, sinceStr) ==
    IF ~complete THEN [err |-> "err", copy |-> c]
    ELSE IF timeParse(sinceStr).err # "nil" THEN [err |-> "err", copy |-> c]
    ELSE [err |-> "nil", copy |-> [c EXCEPT !.since = timeParse(sinceStr).t]]

\* Config.GetSinceParam
Config_GetSinceParam(c) == c.since

\* Config.getFieldIDs: the IDs found, and an error unless all six are
getFieldIDs(present) ==
    [fieldIDs |-> present,
     err |-> IF present = FieldNames THEN "nil" ELSE "err"]

\* Config.LoadJIRAConfig (pointer receiver): project is what Project.Get
\* did, present the custom fields the server has
LoadJIRAConfig(c, project, present) ==
    IF project = "noresp" THEN [err |-> "panic", config |-> c]
    ELSE IF project = "http" THEN [err |-> "err", config |-> c]
    ELSE [err |-> getFieldIDs(present).err,
          config |-> [c EXCEPT !.project = "found",
                               !.fieldIDs = getFieldIDs(present).fieldIDs]]

InitConfig ==
    /\ MainOff
    /\ rt = rtOff
    /\ lq = lqOff
    /\ rq = rqOff
    /\ dc = dcOff
    /\ cc = ccOff
    /\ \E complete \in BOOLEAN, s \in SinceStrings :
          cf = [phase |-> "input", complete |-> complete, sinceStr |-> s,
                config |-> EmptyConfig, err |-> "nil", loaded |-> "none",
                project |-> "none", present |-> {}]

\* NewConfig: validateConfig works on a copy of config, which is returned
\* as it was
NewConfig ==
    /\ cf.phase = "input"
    /\ \E config \in {EmptyConfig} :
          \E v \in {validateConfig(config, cf.complete, cf.sinceStr)} :
              cf' = [cf EXCEPT !.phase = "config",
                               !.err = v.err,
                               !.config = IF v.err # "nil" THEN EmptyConfig
                                          ELSE config]
    /\ UNCHANGED <<mainVars, rt, lq, rq, dc, cc>>

\* NewJIRAClient with the configuration of NewConfig: uriOK says that
\* jira.NewClient took the URI; the error of LoadJIRAConfig is dropped
NewJIRAClient ==
    /\ cf.phase = "config"
    /\ cf.err = "nil"
    /\ \E uriOK \in BOOLEAN, project \in {"found", "http", "noresp"},
          present \in SUBSET FieldNames :
          \E l \in {LoadJIRAConfig(cf.config, project, present)} :
              cf' = IF ~uriOK
                    THEN [cf EXCEPT !.phase = "client", !.err = "err"]
                    ELSE [cf EXCEPT !.phase = "client",
                                    !.project = project,
                                    !.present = present,
                                    !.loaded = l.err,
                                    !.config = l.config,
                                    !.err = IF l.err = "panic" THEN "panic"
                                            ELSE "nil"]
    /\ UNCHANGED <<mainVars, rt, lq, rq, dc, cc>>

NextConfig == NewConfig \/ NewJIRAClient

SpecConfig == InitConfig /\ [][NextConfig]_vars

-----------------------------------------------------------------------------
(* CompareComments on its own: one call for GitHub issue 1 and its mirror, *)
(* whose comments are what earlier runs and JIRA users left.               *)

\* a JIRA comment
JComment(id, body) == [id |-> id, body |-> body]

\* the comment a run generates for GitHub comment id of login with body b
Generated(id, login, b) ==
    RenderComment(GhComment(id, login, Text(b)), GetUser(login))

\* a generated comment of which a JIRA user rewrote all but the beginning
HandEdited(id) ==
    Text(LitComment \o Itoa(id) \o <<")"," ","s","e","e"," ","b","e","l","o","w">>)

\* a comment written by a JIRA user that quotes the beginning of the
\* comment generated for GitHub comment id
Quoting(id) == Text(<<">", " ">> \o LitComment \o Itoa(id) \o <<")">>)

\* the comments the mirror may hold: none; the comment for 42 in step with
\* GitHub, or behind it; one for a user without display name; a rewritten
\* one, alone or before the comment for 43; two comments for 42, the first
\* or the second of them in step with GitHub; a comment written by a JIRA
\* user, alone or before the comment for 42; the comment for 42 with a body
\* of two lines
MirrorCommentLists ==
    {<<>>,
     <<JComment(11, Generated(42, Bob, Hello))>>,
     <<JComment(11, Generated(42, Bob, HelloEdited))>>,
     <<JComment(11, Generated(42, Amy, Hello))>>,
     <<JComment(11, HandEdited(42))>>,
     <<JComment(11, HandEdited(42)), JComment(12, Generated(43, Bob, HelloEdited))>>,
     <<JComment(11, Generated(42, Bob, Hello)),
       JComment(12, Generated(42, Bob, HelloEdited))>>,
     <<JComment(11, Generated(42, Bob, HelloEdited)),
       JComment(12, Generated(42, Bob, Hello))>>,
     <<JComment(11, Text(<<"L","G","T","M">>))>>,
     <<JComment(11, Generated(42, Bob, TwoLines))>>,
     <<JComment(11, Quoting(42)), JComment(12, Generated(42, Bob, HelloEdited))>>}

InitComments ==
    /\ MainOff
    /\ rt = rtOff
    /\ lq = lqOff
    /\ rq = rqOff
    /\ cf = cfOff
    /\ dc = dcOff
    /\ \E c \in CommentLists, m \in MirrorCommentLists, dry \in BOOLEAN :
          cc = [phase |-> "input", comments |-> c, dry |-> dry,
                mirror |-> [Legacy EXCEPT !.comments = m],
                jira |-> <<>>, trace |-> <<>>, status |-> "none"]

\* CompareComments for issue 1 of the repository and the mirror as GetIssue
\* returned it.  fp: the remote call that fails, if any.
CallCompareComments ==
    /\ cc.phase = "input"
    /\ \E fp \in FaultPlans :
          \E r \in {CompareComments(
                       [jira |-> <<cc.mirror>>, trace |-> <<>>, status |-> "ok",
                        fired |-> FALSE, dry |-> cc.dry, key |-> 0],
                       Repo(<<>>, cc.comments)[1], cc.mirror,
                       Repo(<<>>, cc.comments), fp)} :
              /\ fp # NoFault => r.fired
              /\ cc' = [cc EXCEPT !.phase = IF fp = NoFault THEN "done"
                                           ELSE "failed",
                                  !.jira = r.jira,
                                  !.trace = r.trace,
                                  !.status = r.status]
    /\ UNCHANGED <<mainVars, rt, lq, rq, cf, dc>>

NextComments == CallCompareComments

SpecComments == InitComments /\ [][NextComments]_vars

-----------------------------------------------------------------------------
(* UpdateIssue and CreateIssue on their own: one GitHub issue with one     *)
(* comment against the JIRA issue that mirrors it, or against no mirror.   *)

\* the label lists of the GitHub issue
ProbeLabels == {<<>>, <<"bug", "p1">>, <<"p1", "bug">>, <<"bug", "bug">>}

\* the GitHub issues
ProbeSources ==
    {[id |-> 1, number |-> 11, title |-> title, body |-> "It crashes",
      state |-> state, login |-> login, labels |-> labels,
      comments |-> <<GhComment(42, Bob, Text(Hello))>>, pr |-> FALSE,
      updatedAt |-> 0] :
        title \in {"Crash on start", "Crash"}, state \in {"open", "closed"},
        login \in {"alice", "bob"}, labels \in ProbeLabels}

\* the JIRA issues found for GitHub issue 1: each compared field equal to
\* the one of some GitHub issue or not, the custom fields also absent or
\* holding a number instead of a string
ProbeMirrors ==
    {[key |-> 1, type |-> "Bug", summary |-> summary, description |-> description,
      unknowns |-> [githubID |-> IntF(1), githubNumber |-> IntF(11),
                    githubStatus |-> status, githubReporter |-> reporter,
                    githubLabels |-> labels, lastUpdate |-> StrF(dateFormat(0))],
      comments |-> <<>>] :
        summary \in {"Crash on start", "Crash"},
        description \in {"It crashes", "It crashed"},
        status \in {NoF, IntF(1), StrF("open"), StrF("closed")},
        reporter \in {NoF, IntF(7), StrF("alice")},
        labels \in {NoF, StrF(""), StrF("bug,p1")}}

\* the instant of the probe
ProbeTime == 1

\* the remote calls that may fail while the issue is written and read again
ProbeFaults ==
    {NoFault}
    \cup {[at |-> a, n |-> 0, kind |-> "http"] : a \in {"IssueWrite", "GetIssue"}}

InitFields ==
    /\ MainOff
    /\ rt = rtOff
    /\ lq = lqOff
    /\ rq = rqOff
    /\ cf = cfOff
    /\ cc = ccOff
    /\ \E g \in ProbeSources :
          \/ \E m \in ProbeMirrors :
                dc = [phase |-> "input", source |-> g, project |-> <<m>>,
                      changed |-> FALSE, fields |-> <<>>, fault |-> NoFault,
                      jira |-> <<>>, trace |-> <<>>, status |-> "none"]
          \/ dc = [phase |-> "input", source |-> g, project |-> <<>>,
                   changed |-> FALSE, fields |-> <<>>, fault |-> NoFault,
                   jira |-> <<>>, trace |-> <<>>, status |-> "none"]

\* UpdateIssue for the GitHub issue and its mirror; changed and fields keep
\* what DidIssueChange said and the fields that were put into the request
FieldsUpdate ==
    /\ dc.phase = "input"
    /\ dc.project # <<>>
    /\ \E fp \in ProbeFaults :
          \E r \in {UpdateIssue(
                       [jira |-> dc.project, trace |-> <<>>, status |-> "ok",
                        fired |-> FALSE, dry |-> FALSE, key |-> 0],
                       dc.source, dc.project[1], <<dc.source>>, ProbeTime, fp)} :
              /\ fp # NoFault => r.fired
              /\ dc' = [dc EXCEPT
                          !.phase = "updated",
                          !.changed = DidIssueChange(dc.source, dc.project[1]),
                          !.fields = IF DidIssueChange(dc.source, dc.project[1])
                                     THEN UpdateIssueFields(dc.source,
                                                            dc.project[1],
                                                            ProbeTime)
                                     ELSE <<>>,
                          !.fault = fp,
                          !.jira = r.jira,
                          !.trace = r.trace,
                          !.status = r.status]
    /\ UNCHANGED <<mainVars, rt, lq, rq, cf, cc>>

\* CreateIssue for the GitHub issue, which has no mirror
FieldsCreate ==
    /\ dc.phase = "input"
    /\ dc.project = <<>>
    /\ \E fp \in ProbeFaults :
          \E r \in {CreateIssue(
                       [jira |-> <<>>, trace |-> <<>>, status |-> "ok",
                        fired |-> FALSE, dry |-> FALSE, key |-> 0],
                       dc.source, <<dc.source>>, ProbeTime, fp)} :
              /\ fp # NoFault => r.fired
              /\ dc' = [dc EXCEPT
                          !.phase = "created",
                          !.fields = CreateIssueFields(dc.source, ProbeTime),
                          !.fault = fp,
                          !.jira = r.jira,
                          !.trace = r.trace,
                          !.status = r.status]
    /\ UNCHANGED <<mainVars, rt, lq, rq, cf, cc>>

NextFields == FieldsUpdate \/ FieldsCreate

SpecFields == InitFields /\ [][NextFields]_vars

-----------------------------------------------------------------------------
(* The claims *)

\* the JIRA issue m carries the mirrored fields of the GitHub issue g
MirrorsIssue(m, g) ==
    /\ m.summary = g.title
    /\ m.description = g.body
    /\ m.unknowns.githubStatus = StrF(g.state)
    /\ m.unknowns.githubReporter = StrF(g.login)
    /\ m.unknowns.githubLabels = StrF(Join(g.labels, ","))

\* C1: after a pass in which every remote call succeeded, every GitHub
\* issue the pass enumerated has a JIRA issue whose summary, description,
\* status, reporter and labels are those of the GitHub issue.
C1_MirrorEqualsSource ==
    (pc = "done" /\ result = "ok" /\ hist.clean) =>
        \A k \in 1..Len(ghIssues) :
            \E i \in 1..Len(jira) : MirrorsIssue(jira[i], ghIssues[k])

\* C2: no two JIRA issues carry the same GitHub ID.
C2_UniqueGithubID ==
    \A a, b \in 1..Len(jira) :
        (/\ a # b
         /\ jira[a].unknowns.githubID.t = "int"
         /\ jira[b].unknowns.githubID.t = "int")
        => jira[a].unknowns.githubID.n # jira[b].unknowns.githubID.n

\* C3: a GitHub issue whose JIRA issue was created by the pass before and
\* that has not changed since is matched by the current pass through the
\* GitHub ID field, and the current pass makes neither a CreateIssue nor an
\* UpdateIssue call for it.
C3_CreatedThenUntouched ==
    \A k \in 1..Len(ghIssues) :
        (idx >= 1 /\ ghIssues[k].id \in hist.createdPrev) =>
            /\ FindIssue(jiraIssues, ghIssues[k]) # 0
            /\ \A i \in 1..Len(trace) :
                   trace[i].gh = ghIssues[k].id
                   => trace[i].op \notin {"CreateIssue", "UpdateIssue"}

\* C3 witness: a pass has run to its end over an issue whose JIRA issue the
\* pass before created.
C3_Witness ==
    /\ pc = "done"
    /\ result = "ok"
    /\ \E k \in 1..Len(ghIssues) :
          /\ ghIssues[k].id \in hist.createdPrev
          /\ FindIssue(jiraIssues, ghIssues[k]) # 0

\* C4: a pass that follows a pass which ran to its end without a failed
\* call, with no change on GitHub in between, makes no CreateComment and no
\* UpdateComment call.
C4_SecondPassNoCommentWrite ==
    hist.prevClean =>
        \A i \in 1..Len(trace) :
            trace[i].op \notin {"CreateComment", "UpdateComment"}

\* C5: DidIssueChange reports a change whenever the labels field of the
\* matching JIRA issue is readable and differs from the comma-join of the
\* labels of the GitHub issue.
C5_LabelChangeDetected ==
    \A g \in IssueIDs : \A i \in 1..Len(jira) :
        LET labels == UnknownsString(jira[i].unknowns.githubLabels)
        IN  (/\ UnknownsInt(jira[i].unknowns.githubID).v = g
             /\ ~labels.err
             /\ labels.v # Join(github[g].labels, ","))
            => DidIssueChange(github[g], jira[i])

\* C6: ListIssues uses the project query (and filters itself) exactly when
\* it is given more than 100 IDs.
C6_FallbackAbove100 ==
    lq.phase = "listed" => (lq.query = "project" <=> Len(lq.ids) > 100)

\* C7: in a pass without a failed remote call, a comment is created at most
\* once per JIRA issue and GitHub comment, and every update of a comment is
\* addressed to the existing JIRA comment, is performed by the tracker and
\* returns without error.
C7_CreateOnceUpdateInPlace ==
    hist.clean =>
        \A i \in 1..Len(trace) :
            /\ trace[i].op = "CreateComment" =>
                   /\ trace[i].res = "ok"
                   /\ \A j \in 1..Len(trace) :
                          (/\ trace[j].op = "CreateComment"
                           /\ trace[j].key = trace[i].key
                           /\ trace[j].cid = trace[i].cid) => j = i
            /\ trace[i].op = "UpdateComment" =>
                   /\ trace[i].jcid # 0
                   /\ trace[i].applied
                   /\ trace[i].res = "ok"

\* C8: decoding a rendered (and not truncated) comment with jCommentRegex
\* gives back the ID, the login, the display name, the formatted time and
\* the body.
C8_RoundTrip ==
    (/\ rt.phase = "decoded"
     /\ rt.sent.body = RenderComment(rt.comment, rt.user)) =>
        /\ rt.fields # <<>>
        /\ rt.fields[2] = Text(Itoa(rt.comment.id))
        /\ rt.fields[3] = Text(rt.user.login)
        /\ rt.fields[4] = Text(rt.user.name)
        /\ rt.fields[5] = Text(commentDateFormat(rt.comment.createdAt))
        /\ rt.fields[6] = rt.comment.body

\* C9: CreateComment and UpdateComment submit the rendered body when it has
\* at most 32768 characters and its first 32768 characters otherwise, and
\* neither panics.
C9_BodyTruncated ==
    rt.phase \in {"created", "updated"} =>
        LET body == RenderComment(rt.comment, rt.user)
        IN  /\ ~rt.sent.panic
            /\ rt.sent.body = IF SLen(body) <= 32768 THEN body
                              ELSE Take(body, 32768)

\* C10: once the loop of CompareIssues has been entered, the pass ends only
\* after every enumerated issue has been attempted, and CompareIssues
\* returns success.
C10_LaterIssuesAttempted ==
    (pc \in {"done", "panic"} /\ idx >= 1) =>
        (idx > Len(ghIssues) /\ result = "ok")

\* C11: CompareIssues returns an error exactly when the GitHub listing or
\* the JIRA listing of the pass returned an error, and then the pass has
\* made no create or update call for any issue or comment.
C11_ErrorOnlyFromEnumeration ==
    /\ (result = "err") <=> hist.listErr
    /\ result = "err" => trace = <<>>

\* C11 witness: a pass whose listing failed has returned an error, and a
\* JIRA project with issues is left as it was.
C11_Witness ==
    /\ pc = "done"
    /\ result = "err"
    /\ hist.listErr
    /\ jira # <<>>

\* C12: in a dry run no create or update call for an issue or a comment
\* sends a request, and the JIRA project stays as it was when the pass
\* began.
C12_DryRunWritesNothing ==
    (dryRun /\ hist.passNo >= 1) =>
        /\ jira = hist.jira0
        /\ \A i \in 1..Len(trace) : ~trace[i].sent /\ ~trace[i].applied

\* C12 witness: a dry run has ended after it reported an issue update and
\* a comment creation or update.
C12_Witness ==
    /\ dryRun
    /\ pc = "done"
    /\ \E i \in 1..Len(trace) : trace[i].op = "UpdateIssue"
    /\ \E i \in 1..Len(trace) : trace[i].op \in {"CreateComment", "UpdateComment"}

\* the mutations among the calls tr, as issue or comment and GitHub IDs
Mutations(tr) ==
    [i \in 1..Len(tr) |-> [op |-> tr[i].op, gh |-> tr[i].gh, cid |-> tr[i].cid]]

\* C13: a dry run that has ended, and in which GitHub and JIRA answered
\* every request for something that exists, has reported the mutations that
\* a live pass over the same GitHub issues and the same JIRA project
\* performs, in the same order.
C13_DryRunReportsLivePass ==
    (dryRun /\ pc = "done" /\ hist.clean) =>
        Mutations(SelectSeq(trace, LAMBDA c : c.res = "ok"))
            = Mutations(SelectSeq(hist.live.trace, LAMBDA c : c.sent))

\* C14: a requester calls the operation again only after a failed attempt;
\* after the first success it has made no further call and has returned
\* that attempt's result and response with a nil error; a requester that
\* returned a nil error had an attempt succeed.
C14_RetryOnlyWhileFailing ==
    rq.phase # "off" =>
        /\ rq.calls - rq.failed = IF rq.okAt # 0 THEN 1 ELSE 0
        /\ rq.okAt # 0 =>
              /\ rq.phase = "done"
              /\ rq.calls = rq.okAt
              /\ rq.out = [ret |-> rq.okAt, res |-> rq.okAt, err |-> "nil"]
        /\ (rq.phase = "done" /\ rq.out.err = "nil") => rq.okAt # 0

\* a JIRA request has returned the result of its third attempt, the first
\* success
C14_Witness ==
    /\ rq.phase = "done"
    /\ rq.client = "JIRA"
    /\ rq.okAt = 3
    /\ rq.failed = 2
    /\ rq.out.err = "nil"

\* C15: a requester whose every attempt failed returns a non-nil error
\* together with the response and the partial result of the last attempt.
C15_FailureKeepsLastResponse ==
    (rq.phase = "done" /\ rq.okAt = 0) =>
        /\ rq.out.err # "nil"
        /\ rq.out.res = rq.last.res
        /\ rq.out.ret = rq.last.ret

\* C16: when the operation keeps failing, the requester goes on to another
\* attempt only while the elapsed time is within the configured timeout.
C16_StopsAtTimeout ==
    (rq.phase = "run" /\ rq.failed >= 1) => rq.checked <= rq.timeout

\* C17: the saved `since` date changes only in a step in which the issue
\* comparison returns without error; a run whose enumeration failed leaves
\* it as it was.
C17_SinceOnlyAfterSuccess ==
    [][/\ savedSince' # savedSince =>
             pc' = "done" /\ result' = "ok" /\ ~hist'.listErr
       /\ (pc' = "done" /\ hist'.listErr) => savedSince' = savedSince]_vars

\* the first run saved a new date and the second, whose enumeration failed,
\* has kept it
C17_Witness ==
    /\ pc = "done"
    /\ hist.passNo = 2
    /\ hist.listErr
    /\ result = "err"
    /\ savedSince # dateFormat(0)

\* C18: when ListIssues has returned a listing, every issue of every page
\* that is not a pull request is in it exactly once, and no pull request is.
C18_EveryIssueOnce ==
    pc = "loop" =>
        \A p \in 1..Len(pages) : \A k \in 1..Len(pages[p]) :
            Cardinality({i \in 1..Len(ghIssues) :
                            ghIssues[i].id = github[pages[p][k]].id})
                = IF github[pages[p][k]].pr THEN 0 ELSE 1

\* C19: after NewConfig succeeded on a well-formed `since`, GetSinceParam
\* of the configuration it returned is that date.
C19_SinceIsParsed ==
    (cf.phase = "config" /\ cf.err = "nil"
        /\ timeParse(cf.sinceStr).err = "nil") =>
        Config_GetSinceParam(cf.config) = timeParse(cf.sinceStr).t

\* C20: NewJIRAClient returns an error when the JIRA project could not be
\* loaded or one of the six custom fields could not be resolved.
C20_LoadFailureIsError ==
    (cf.phase = "client" /\ cf.project # "none"
        /\ (cf.project # "found" \/ cf.present # FieldNames)) =>
        cf.err = "err"

\* C21: jCommentRegex gives six submatches for the generated comment of
\* TestJiraCommentRegex (ID and login as links, a login with a hyphen, a
\* display name): the whole text, the ID, the login, the display name, the
\* time and the body.
C21_DecodesLinkedComment ==
    rt.phase = "tested" =>
        /\ Len(rt.fields) = 6
        /\ rt.fields = <<TestComment>> \o TestFields

\* C22: no step removes a JIRA issue or changes the GitHub ID or the GitHub
\* Number field of a JIRA issue that exists; an issue that appears in a
\* step has both fields set, by CreateIssue.
C22_GithubIDWrittenOnce ==
    [][/\ Len(jira') >= Len(jira)
       /\ \A k \in 1..Len(jira) :
             /\ jira'[k].unknowns.githubID = jira[k].unknowns.githubID
             /\ jira'[k].unknowns.githubNumber = jira[k].unknowns.githubNumber
       /\ \A k \in (Len(jira) + 1)..Len(jira') :
             /\ jira'[k].unknowns.githubID.t = "int"
             /\ \E i \in 1..Len(trace') :
                   /\ trace'[i].op = "CreateIssue"
                   /\ trace'[i].key = k
                   /\ trace'[i].gh = jira'[k].unknowns.githubID.n]_vars

\* an update of the mirror of issue 1 was performed, and the mirror still
\* has the ID and the number it had
C22_Witness ==
    /\ \E i \in 1..Len(trace) :
          /\ trace[i].op = "UpdateIssue"
          /\ trace[i].applied
          /\ trace[i].key = 1
    /\ jira[1].unknowns.githubID = IntF(1)
    /\ jira[1].unknowns.githubNumber = IntF(11)
    /\ jira[1].unknowns.githubStatus = StrF(github[1].state)

\* the positions of the comments of the mirror that the ID filter
\* (jCommentIDRegex) takes for the GitHub comment id
MatchesByID(jComments, id) ==
    {i \in 1..Len(jComments) :
        /\ jCommentIDRegex(jComments[i].body) # <<>>
        /\ Atoi(jCommentIDRegex(jComments[i].body)[2].txt) = id}

\* C23: a call of CompareComments without failed remote call, in which the
\* mirror comment matched by ID for some source comment is not decoded by
\* jCommentRegex, does not crash and deals with every source comment after
\* that one: each of them is left as it is, updated or created.
C23_DecodeFailureSkipped ==
    cc.phase = "done" =>
        \A k \in 1..Len(cc.comments) :
            (/\ MatchesByID(cc.mirror.comments, cc.comments[k].id) # {}
             /\ jCommentRegex(cc.mirror.comments[
                    Min(MatchesByID(cc.mirror.comments, cc.comments[k].id))].body)
                  = <<>>) =>
                /\ cc.status # "panic"
                /\ \A n \in (k + 1)..Len(cc.comments) :
                      \/ MatchesByID(cc.mirror.comments, cc.comments[n].id) # {}
                      \/ \E i \in 1..Len(cc.trace) :
                            /\ cc.trace[i].op = "CreateComment"
                            /\ cc.trace[i].cid = cc.comments[n].id

\* C30: when two or more comments of the mirror carry the ID of one source
\* comment, a call of CompareComments creates no comment for that source
\* comment, makes its update calls, if any, on the first of them, and leaves
\* the others in place with the body they had.
C30_FirstMatchWins ==
    cc.phase \in {"done", "failed"} =>
        \A k \in 1..Len(cc.comments) :
            Cardinality(MatchesByID(cc.mirror.comments, cc.comments[k].id)) >= 2 =>
                /\ \A i \in 1..Len(cc.trace) :
                      cc.trace[i].cid = cc.comments[k].id =>
                          /\ cc.trace[i].op = "UpdateComment"
                          /\ cc.trace[i].jcid =
                                cc.mirror.comments[
                                    Min(MatchesByID(cc.mirror.comments,
                                                    cc.comments[k].id))].id
                /\ Len(cc.jira[1].comments) >= Len(cc.mirror.comments)
                /\ \A i \in MatchesByID(cc.mirror.comments, cc.comments[k].id)
                             \ {Min(MatchesByID(cc.mirror.comments,
                                                cc.comments[k].id))} :
                      cc.jira[1].comments[i] = cc.mirror.comments[i]

\* the mirror held two comments for comment 42; the first was behind GitHub
\* and its update was sent, the second is as it was
C30_Witness ==
    /\ cc.phase = "done"
    /\ Cardinality(MatchesByID(cc.mirror.comments, 42)) = 2
    /\ \E i \in 1..Len(cc.trace) :
          /\ cc.trace[i].op = "UpdateComment"
          /\ cc.trace[i].cid = 42
          /\ cc.trace[i].jcid = 11
          /\ cc.trace[i].applied
    /\ cc.jira[1].comments[1] # cc.mirror.comments[1]
    /\ cc.jira[1].comments[2] = cc.mirror.comments[2]

\* C24: the fields put into the update of a matched issue that differ from
\* nothing on the mirror are not in the request: the summary and the
\* description are in it (are not empty) only when they differ from the
\* mirror's, the status, reporter and labels fields only when the mirror's
\* field is not that value.
C24_MinimalChangeSet ==
    (dc.phase = "updated" /\ dc.changed) =>
        /\ dc.fields.summary # "" => dc.source.title # dc.project[1].summary
        /\ dc.fields.description # "" =>
              dc.source.body # dc.project[1].description
        /\ "githubStatus" \in DOMAIN dc.fields.unknowns =>
              dc.project[1].unknowns.githubStatus # StrF(dc.source.state)
        /\ "githubReporter" \in DOMAIN dc.fields.unknowns =>
              dc.project[1].unknowns.githubReporter # StrF(dc.source.login)
        /\ "githubLabels" \in DOMAIN dc.fields.unknowns =>
              dc.project[1].unknowns.githubLabels
                  # dc.fields.unknowns.githubLabels

\* C25: UpdateIssue for a matched issue, when the tracker can be read, runs
\* the comment reconciler on the mirror, which here creates the comment the
\* mirror lacks: when nothing differs and when an update was attempted.
C25_AlwaysReconciles ==
    (dc.phase = "updated" /\ dc.fault.at # "GetIssue") =>
        \E i \in 1..Len(dc.trace) :
            /\ dc.trace[i].op = "CreateComment"
            /\ dc.trace[i].cid = 42

\* the labels of a GitHub issue as the mirror is to hold them: the names in
\* the order of the issue, with commas between them
LabelsText(labels) ==
    IF Len(labels) = 0 THEN ""
    ELSE IF Len(labels) = 1 THEN labels[1]
    ELSE labels[1] \o "," \o labels[2]

\* a compared field of the mirror m is not what the GitHub issue g has
FieldDiffers(g, m) ==
    \/ g.title # m.summary
    \/ g.body # m.description
    \/ m.unknowns.githubStatus # StrF(g.state)
    \/ m.unknowns.githubReporter # StrF(g.login)
    \/ m.unknowns.githubLabels # StrF(LabelsText(g.labels))

\* C26: when no remote call fails, UpdateIssue writes the last-update field
\* of the mirror exactly when a compared field differs, and makes no update
\* call otherwise; CreateIssue writes it.
C26_TimestampIffChanged ==
    /\ (dc.phase = "updated" /\ dc.fault = NoFault) =>
          /\ (dc.jira[1].unknowns.lastUpdate = StrF(dateFormat(ProbeTime)))
                <=> FieldDiffers(dc.source, dc.project[1])
          /\ dc.jira[1].unknowns.lastUpdate # StrF(dateFormat(ProbeTime)) =>
                /\ dc.jira[1].unknowns.lastUpdate
                      = dc.project[1].unknowns.lastUpdate
                /\ \A i \in 1..Len(dc.trace) : dc.trace[i].op # "UpdateIssue"
    /\ (dc.phase = "created" /\ dc.fault = NoFault) =>
          dc.jira[1].unknowns.lastUpdate = StrF(dateFormat(ProbeTime))

\* C27: DidIssueChange is true whenever the mirror's GitHub Status field is
\* absent, is not a string or is not the state of the GitHub issue, and
\* whenever its GitHub Reporter field is absent, is not a string or is not
\* the login of the reporter, whatever the other fields hold.
C27_StatusReporterChange ==
    dc.phase = "updated" =>
        /\ dc.project[1].unknowns.githubStatus # StrF(dc.source.state)
              => dc.changed
        /\ dc.project[1].unknowns.githubReporter # StrF(dc.source.login)
              => dc.changed

\* UpdateIssue found a change where only the status field, absent or not a
\* string, is not what the GitHub issue has
C27_Witness ==
    /\ dc.phase = "updated"
    /\ dc.changed
    /\ dc.source.title = dc.project[1].summary
    /\ dc.source.body = dc.project[1].description
    /\ dc.project[1].unknowns.githubReporter = StrF(dc.source.login)
    /\ dc.project[1].unknowns.githubLabels = StrF(LabelsText(dc.source.labels))
    /\ dc.project[1].unknowns.githubStatus \in {NoF, IntF(1)}

\* C28: the GitHub Labels field that CreateIssue and UpdateIssue write is the
\* label names of the GitHub issue in the order of the issue with commas
\* between them, nothing sorted and nothing left out; CreateIssue writes the
\* GitHub ID, Number, Status, Reporter and last-update fields from the issue.
C28_LabelsJoinedInOrder ==
    /\ (dc.phase = "created" /\ dc.fault = NoFault) =>
          dc.jira[1].unknowns =
              [githubID |-> IntF(dc.source.id),
               githubNumber |-> IntF(dc.source.number),
               githubStatus |-> StrF(dc.source.state),
               githubReporter |-> StrF(dc.source.login),
               githubLabels |-> StrF(LabelsText(dc.source.labels)),
               lastUpdate |-> StrF(dateFormat(ProbeTime))]
    /\ (dc.phase = "updated" /\ dc.changed /\ dc.fault = NoFault) =>
          dc.jira[1].unknowns.githubLabels
              = StrF(LabelsText(dc.source.labels))

\* an issue labelled p1 then bug was created with "p1,bug" on the mirror
C28_Witness ==
    /\ dc.phase = "created"
    /\ dc.fault = NoFault
    /\ dc.source.labels = <<"p1", "bug">>
    /\ dc.jira[1].unknowns.githubLabels = StrF("p1,bug")

\* the place of comment cid among the comments of GitHub issue g, which
\* GitHub keeps in the order of their creation
CommentPlace(g, cid) ==
    CHOOSE k \in 1..Len(github[g].comments) : github[g].comments[k].id = cid

\* C29: the calls of a pass are made issue after issue in the order of the
\* list of GitHub issues: the calls made for the issue at place idx of the
\* list come after every call made for the places before it, all of them are
\* calls for that issue, and the loop then goes to the next place; the
\* comment calls of the issue come in the order in which its comments were
\* created.
C29_StrictlySequential ==
    [][pc = "loop" =>
          /\ Len(trace') >= Len(trace)
          /\ SubSeq(trace', 1, Len(trace)) = trace
          /\ idx' = idx + 1 \/ (idx' = idx /\ pc' = "panic")
          /\ \A a \in (Len(trace) + 1)..Len(trace') :
                /\ trace'[a].gh = ghIssues[idx].id
                /\ \A b \in (a + 1)..Len(trace') :
                      (trace'[a].cid # 0 /\ trace'[b].cid # 0) =>
                          CommentPlace(trace'[a].gh, trace'[a].cid)
                              < CommentPlace(trace'[b].gh, trace'[b].cid)]_vars

\* a pass made a call for the first comment of issue 1, then one for its
\* second comment, then one for issue 2
C29_Witness ==
    \E a, b, c \in 1..Len(trace) :
        /\ a < b
        /\ b < c
        /\ trace[a].gh = 1
        /\ trace[a].cid = 42
        /\ trace[b].gh = 1
        /\ trace[b].cid = 43
        /\ trace[c].gh = 2

\* the comments of the list jComments that do not begin with the header of
\* a generated comment, as indices
Foreign(jComments) ==
    {i \in 1..Len(jComments) : jCommentIDRegex(jComments[i].body) = <<>>}

\* C31: a comment of the mirror that does not begin with "Comment (ID n)"
\* is not decoded and not updated by CompareComments: no UpdateComment call
\* names it, it is on the mirror afterwards as it was, and, when every
\* comment of the mirror is such a comment, CompareComments fails only in a
\* call of the JIRA client, never in the decoding of a comment.
C31_ForeignCommentSkipped ==
    cc.phase \in {"done", "failed"} =>
        /\ \A i \in Foreign(cc.mirror.comments) :
              /\ cc.jira[1].comments[i] = cc.mirror.comments[i]
              /\ \A c \in 1..Len(cc.trace) :
                    cc.trace[c].op = "UpdateComment" =>
                        cc.trace[c].jcid # cc.mirror.comments[i].id
        /\ (/\ Foreign(cc.mirror.comments) = DOMAIN cc.mirror.comments
            /\ cc.status = "panic")
           => /\ cc.trace # <<>>
              /\ cc.trace[Len(cc.trace)].res = "panic"

\* CompareComments went past a comment quoting the header for comment 42
\* and updated the generated comment behind it
C31_Witness ==
    /\ cc.phase = "done"
    /\ Len(cc.mirror.comments) = 2
    /\ cc.mirror.comments[1].body = Quoting(42)
    /\ cc.jira[1].comments[1] = cc.mirror.comments[1]
    /\ \E c \in 1..Len(cc.trace) :
          /\ cc.trace[c].op = "UpdateComment"
          /\ cc.trace[c].cid = 42
          /\ cc.trace[c].jcid = 12

\* C32: a JIRA issue whose GitHub ID field is absent or is no number is
\* matched with no GitHub issue, whatever the ID of the issue, 0 included:
\* ListIssues does not return it, so that CompareIssues finds for no ID a
\* JIRA issue whose field cannot be read.
C32_UnreadableIDNeverMatches ==
    lq.phase = "listed" =>
        /\ \A k \in 1..Len(lq.issues) :
              ~UnknownsInt(lq.issues[k].unknowns.githubID).err
        /\ \A g \in 0..(MaxIDs + 1) :
              \A k \in {FindIssue(lq.issues, [id |-> g])} :
                  k # 0 => lq.issues[k].unknowns.githubID = IntF(g)

\* ListIssues filtered a project itself for a list of IDs beginning with 0:
\* of the issue without GitHub ID and the issue of GitHub ID 0, the second
\* is the one matched with GitHub issue 0
C32_Witness ==
    /\ lq.phase = "listed"
    /\ lq.query = "project"
    /\ lq.ids[1] = 0
    /\ \E k \in 1..Len(lq.project) : lq.project[k].unknowns.githubID = NoF
    /\ FindIssue(lq.issues, [id |-> 0]) # 0
    /\ lq.issues[FindIssue(lq.issues, [id |-> 0])].key = 3

\* C33: whichever search ListIssues made, it returns the issues that the
\* search by the list of IDs returns for the same project and the same IDs,
\* and these are the issues of the project whose GitHub ID field holds one
\* of the IDs.
C33_PathsAgree ==
    lq.phase = "listed" =>
        /\ lq.issues = JQLByID(lq.project, lq.ids)
        /\ {lq.issues[k].key : k \in 1..Len(lq.issues)}
              = {lq.project[k].key :
                    k \in {n \in 1..Len(lq.project) :
                              \E i \in 1..Len(lq.ids) :
                                  lq.project[n].unknowns.githubID
                                      = IntF(lq.ids[i])}}

\* ListIssues searched the whole project and kept some of its issues,
\* not all
C33_Witness ==
    /\ lq.phase = "listed"
    /\ lq.query = "project"
    /\ lq.issues # <<>>
    /\ Len(lq.issues) < Len(lq.project)

\* C34: when the GitHub comment has a body of two lines and the mirror holds
\* the comment generated for it, the comment is decoded with its whole
\* body, line break included, CompareComments ends without error and makes
\* no call: the comment is not rewritten.
C34_MultiLineBodyDecoded ==
    (/\ cc.phase = "done"
     /\ cc.comments = <<GhComment(42, Bob, Text(TwoLines))>>
     /\ cc.mirror.comments = <<JComment(11, Generated(42, Bob, TwoLines))>>)
    => /\ jCommentRegex(cc.mirror.comments[1].body) # <<>>
       /\ cc.status = "ok"
       /\ cc.trace = <<>>

\* C35: realJIRAClient.UpdateComment returns no error when the tracker
\* performed the PUT request, and returns an error only when the user could
\* not be fetched or the request failed: every call of it in which the
\* request was performed has the result "ok", and every call with the
\* result "err" is one in which GetUser or the request failed.
C35_UpdateCommentReturnsComment ==
    (cc.phase \in {"done", "failed"} /\ ~cc.dry) =>
        \A c \in 1..Len(cc.trace) :
            cc.trace[c].op = "UpdateComment" =>
                /\ cc.trace[c].applied => cc.trace[c].res = "ok"
                /\ cc.trace[c].res = "err" => ~cc.trace[c].applied

\* C36: a call of the real JIRA client whose request went out and was not
\* performed, be it answered with an HTTP error or not answered at all,
\* returns an error to its caller: none of these calls ends in a panic.
C36_NoResponseIsError ==
    \A c \in 1..Len(trace) :
        (trace[c].sent /\ ~trace[c].applied) => trace[c].res = "err"

\* C37: in CompareComments a CreateComment call that returns an error is
\* the last call made and its error is what CompareComments returns; an
\* UpdateComment call that returns an error is followed by the call for the
\* next GitHub comment, and when it is the last call CompareComments
\* returns no error.
C37_CreateErrorStopsUpdateErrorNot ==
    cc.phase \in {"done", "failed"} =>
        \A c \in 1..Len(cc.trace) :
            /\ (cc.trace[c].op = "CreateComment" /\ cc.trace[c].res = "err")
               => (c = Len(cc.trace) /\ cc.status = "err")
            /\ (cc.trace[c].op = "UpdateComment" /\ cc.trace[c].res = "err")
               => /\ c = Len(cc.trace) => cc.status = "ok"
                  /\ (/\ Len(cc.comments) = 2
                      /\ cc.trace[c].cid = cc.comments[1].id)
                     => /\ c < Len(cc.trace)
                        /\ cc.trace[c + 1].cid = cc.comments[2].id

\* the update of the comment for 42 returned an error and the comment for
\* 43 was created after it
C37_Witness ==
    /\ cc.phase = "failed"
    /\ Len(cc.comments) = 2
    /\ Len(cc.trace) = 2
    /\ cc.trace[1].op = "UpdateComment"
    /\ cc.trace[1].res = "err"
    /\ cc.trace[2].op = "CreateComment"
    /\ cc.trace[2].cid = 43
    /\ cc.trace[2].res = "ok"

\* C38: in dry-run mode no pass, ended with or without an error, changes
\* the `since` date of the saved configuration: it stays what it was before
\* the first pass.
C38_DryRunKeepsSince ==
    dryRun => savedSince = dateFormat(0)

\* a second dry-run pass has ended without error
C38_Witness ==
    /\ dryRun
    /\ pc = "done"
    /\ result = "ok"
    /\ hist.passNo = 2
    /\ trace # <<>>

\* C39: a live pass that listed the issues and ran to its end has saved
\* the present date as `since`, whether or not a call made for an issue
\* returned an error; and the pass after it lists only issues that were
\* updated on GitHub at or after that date.
C39_SinceAdvancesAndFilters ==
    /\ (~dryRun /\ pc = "done" /\ ~hist.listErr)
          => savedSince = dateFormat(now)
    /\ (/\ ~dryRun
        /\ hist.passNo = 2
        /\ pc = "loop"
        /\ savedSince = dateFormat(now - 1))
       => \A k \in 1..Len(ghIssues) : ghIssues[k].updatedAt >= now - 1

\* C40: an issue changed on GitHub while a pass was in its loop, after the
\* pass had listed the issues and before it saved `since`, is among the
\* issues the next pass lists, when that pass could list the issues.
C40_NoUpdateLost ==
    (hist.passNo >= 2 /\ ~hist.listErr) =>
        \A g \in hist.late : \E k \in 1..Len(ghIssues) : ghIssues[k].id = g

====
